---------------------------- MODULE Spec2Model ----------------------------
(***************************************************************************)
(* State-machine model of the particle-simulation scripts of the           *)
(* Precomputed-Relational-Universe repository.                             *)
(*                                                                         *)
(* The repository is a set of independent scripts.  The variable `script`  *)
(* says which of them is running; each behaviour runs one script from its  *)
(* module-level initialisation through its main loop.                      *)
(*                                                                         *)
(*   "unified"    src/pru_unified_sim.py                                   *)
(*   "emergent"   src/pru_emergent_sim.py                                  *)
(*   "qr"         src/pru_universe_simulation.py                           *)
(*   "evolution"  src/pru_evolution.py                                     *)
(*   "simulation" src/pru_simulation.py                                    *)
(*                                                                         *)
(* Arithmetic.  The scripts compute in float64.  The model computes in     *)
(* fixed point on integers: every quantity is an integer number of model   *)
(* units, and every division rounds toward zero (TDiv).  The physical     *)
(* constants are scaled to small integers that keep each constant's role   *)
(* and the order relations between them (SOFTENING below CUTOFF, 0.99      *)
(* C_LIGHT below 0.999 C_LIGHT below C_LIGHT, the conflict threshold below *)
(* the creation threshold), so that all products stay within 32 bits.      *)
(* The rounding of float64 itself is not modelled: a result is exact up to *)
(* one model unit.                                                         *)
(***************************************************************************)
EXTENDS Integers, Sequences, FiniteSets, TLC

VARIABLES
    script,          \* which script this behaviour runs
    pc,              \* position of the script's main loop
    step,            \* loop counter (step / t / step_count)
    particles,       \* unified: particles_cosmo; emergent: particles
    forces,          \* unified: forces_cosmo; emergent: the force each update computed
    new_temps,       \* unified: temperatures_cosmo (new_temps of compute_heat_transfer)
    new_entropy,     \* unified: entropy_cosmo (new_entropy of compute_heat_transfer)
    pending,         \* iterations of the running prange / for loop not yet executed
    acc,             \* array slots read and written by the workers of the running prange
    trace,           \* phases completed in the current step, in order
    snap,            \* history: the particle state at the start of the current step
    before,          \* history: the particle state when the current phase was entered
    tree,            \* emergent: the positions the KDTree was built from
    positions,       \* qr, evolution: positions
    velocities,      \* qr: velocities
    masses,          \* qr: masses
    spins,           \* qr: spins
    neighbor_indices,           \* qr: neighbor_indices
    entanglement_correlations,  \* qr: the array update_pru_quantum_relativity returns
    time_dilation_factors,      \* qr: the array update_pru_quantum_relativity returns
    resonance,       \* evolution: resonance
    polarity,        \* evolution: polarity
    truth,           \* evolution: truth
    alignment,       \* evolution: alignment
    relation_map,    \* evolution: relation_map
    runs             \* unified, module level run twice: the generator and arrays of each run

\* the variables of the unified and emergent scripts, of qr, of evolution
uv == <<particles, forces, new_temps, new_entropy, tree>>
qv == <<velocities, masses, spins, neighbor_indices, entanglement_correlations,
        time_dilation_factors>>
ev == <<resonance, polarity, truth, alignment, relation_map>>

vars == <<script, pc, step, pending, acc, trace, snap, before, positions, uv, qv, ev, runs>>

\* the initial value of the variables of a script that does not run
IdleUnified ==
    /\ particles = <<>> /\ forces = <<>> /\ new_temps = <<>> /\ new_entropy = <<>>
    /\ tree = <<>>

IdleQr ==
    /\ velocities = <<>> /\ masses = <<>> /\ spins = <<>> /\ neighbor_indices = <<>>
    /\ entanglement_correlations = <<>> /\ time_dilation_factors = <<>>

IdleEvolution ==
    /\ resonance = <<>> /\ polarity = <<>> /\ truth = <<>> /\ alignment = <<>>
    /\ relation_map = <<>>

-----------------------------------------------------------------------------
(* Fixed-point helpers *)

Abs(x) == IF x < 0 THEN -x ELSE x

\* a / b rounded toward zero, b > 0
TDiv(a, b) == IF a >= 0 THEN a \div b ELSE -((-a) \div b)

RECURSIVE SqrtSearch(_, _, _)
SqrtSearch(n, lo, hi) ==
    IF lo >= hi THEN lo
    ELSE LET mid == (lo + hi + 1) \div 2
         IN  IF mid * mid <= n THEN SqrtSearch(n, mid, hi)
                               ELSE SqrtSearch(n, lo, mid - 1)

\* floor of the square root
ISqrt(n) == SqrtSearch(n, 0, IF n < 46340 THEN n ELSE 46340)

\* ceiling of the square root
CSqrt(n) == LET r == ISqrt(n) IN IF r * r = n THEN r ELSE r + 1

\* the sequence s with its elements evaluated once, when it is built
Eager(s) == s \o <<>>

RECURSIVE SumOver(_, _)
SumOver(S, f) ==
    IF S = {} THEN 0
    ELSE LET x == CHOOSE y \in S : TRUE
         IN  f[x] + SumOver(S \ {x}, f)

-----------------------------------------------------------------------------
(* src/pru_unified_sim.py: constants *)

\* model bounds: population size and number of loop iterations
NUM_PARTICLES_COSMO == 3
TIME_STEPS == 2

DELTA_T == 1
G == 20000
K_E == 30000
C_LIGHT == 1000
HEAT_TRANSFER_COEFF == 1
CUTOFF == 100          \* cutoff = 1e4
SOFTENING == 10        \* the 1e3 under the square root of distance
NORM_FACTOR == 10      \* norm_factor = 1000.0
GAMMA_SCALE == 100     \* gamma is held in hundredths
ENTROPY_SCALE == 1000  \* entropy is held in thousandths

\* 0.99 * C_LIGHT and 0.999 * C_LIGHT
SpeedCap == (99 * C_LIGHT) \div 100
GammaClamp == (999 * C_LIGHT) \div 1000

Idx == 1 .. NUM_PARTICLES_COSMO

\* PARTICLE_TYPES / CHARGES / MASSES: the types the model draws from
CHARGES == [Electron |-> -1, Proton |-> 1, Neutron |-> 0, Star |-> 0]
\* the table with a massless entry
MassesWithMasslessNeutron == [Electron |-> 1, Proton |-> 2, Neutron |-> 0, Star |-> 40]

MASSES == [Electron |-> 1, Proton |-> 2, Neutron |-> 2, Star |-> 40]

NewParticle(ptype, pos, vel, temp, qs, eid) ==
    [charge |-> CHARGES[ptype], mass |-> MASSES[ptype], position |-> pos,
     velocity |-> vel, temperature |-> temp, entropy |-> 0, phase |-> 0,
     quantum_state |-> qs, entanglement_id |-> eid]

\* the initial values the model draws for one particle (lines 53-65)
ParticleSeeds ==
    { NewParticle("Electron", <<0, 0>>,    <<0, 0>>,  100,  100, 0),
      NewParticle("Proton",   <<8, 0>>,    <<1, 0>>,  300,  300, 0),
      NewParticle("Star",     <<0, 10>>,   <<0, 0>>,  4000, 900, 1),
      NewParticle("Neutron",  <<300, 300>>, <<0, -1>>, 2500, 500, 1),
      NewParticle("Electron", <<-6, 8>>,   <<0, 0>>,  500,  200, 2) }

Norm2(v) == v[1] * v[1] + v[2] * v[2]

-----------------------------------------------------------------------------
(* compute_forces_kdtree *)

\* tree.query_ball_point(pos_i, cutoff) with i removed (lines 85-87)
BallNeighbors(ps, i) ==
    { j \in DOMAIN ps : /\ j # i
                        /\ Norm2(<<ps[j].position[1] - ps[i].position[1],
                                   ps[j].position[2] - ps[i].position[2]>>)
                               <= CUTOFF * CUTOFF }

\* the radicand of line 95 without the test on v_rel
UnclampedRadicand(vel) == C_LIGHT * C_LIGHT - Norm2(vel)

\* 1 - v_rel**2 of line 95, times C_LIGHT**2: v_rel is replaced by 0.999 when
\* it is 0.999 or more
GammaRadicand(vel) ==
    LET v2 == Norm2(vel)
    IN  IF v2 >= GammaClamp * GammaClamp
        THEN C_LIGHT * C_LIGHT - GammaClamp * GammaClamp
        ELSE C_LIGHT * C_LIGHT - v2

\* gamma in hundredths (lines 93-95)
Gamma(vel) == TDiv(GAMMA_SCALE * C_LIGHT, ISqrt(GammaRadicand(vel)))

\* the square of the distance without the 1e3**2 of line 90
UnsoftenedSquare(r_vec) == Norm2(r_vec)

\* the 1e3**2 of line 90 added only for a neighbor that lies to the right
OneSidedSoftening(r_vec) ==
    Norm2(r_vec) + (IF r_vec[1] > 0 THEN SOFTENING * SOFTENING ELSE 1)

\* distance**2 of line 90
SoftenedSquare(r_vec) == Norm2(r_vec) + SOFTENING * SOFTENING

\* the contribution of neighbor j to the force on i (lines 89-98)
PairForce(ps, i, j) ==
    LET r_vec == <<ps[j].position[1] - ps[i].position[1],
                   ps[j].position[2] - ps[i].position[2]>>
        d2 == SoftenedSquare(r_vec)
        distance == ISqrt(d2)
        F_g == TDiv(G * ps[i].mass * ps[j].mass, d2)
        F_e == TDiv(K_E * ps[i].charge * ps[j].charge, d2)
        force_magnitude == TDiv((F_g + F_e) * Gamma(ps[i].velocity), GAMMA_SCALE)
    IN  <<TDiv(force_magnitude * r_vec[1], distance),
          TDiv(force_magnitude * r_vec[2], distance)>>

\* the accumulated force on i
ForceOn(ps, i) ==
    LET nb == BallNeighbors(ps, i)
    IN  <<SumOver(nb, [j \in nb |-> PairForce(ps, i, j)[1]]),
          SumOver(nb, [j \in nb |-> PairForce(ps, i, j)[2]])>>

\* the forces accumulated onto an array of ones instead of the zeros of line 78
forces_onto_ones(ps) ==
    [i \in DOMAIN ps |-> <<ForceOn(ps, i)[1] + 1, ForceOn(ps, i)[2] + 1>>]

compute_forces_kdtree(ps) == [i \in DOMAIN ps |-> ForceOn(ps, i)]

(* compute_heat_transfer: iteration i of the prange, j = from .. N *)
RECURSIVE HeatLoop(_, _, _, _, _)
HeatLoop(ps, i, j, nt, ne) ==
    IF j > Cardinality(DOMAIN ps) THEN <<nt, ne>>
    ELSE IF j = i THEN HeatLoop(ps, i, j + 1, nt, ne)
    ELSE LET Q_ij == HEAT_TRANSFER_COEFF * (ps[j].temperature - ps[i].temperature)
             nt2 == nt + TDiv(Q_ij * DELTA_T, NORM_FACTOR)
             ne2 == IF nt2 > 0
                    THEN ne + TDiv(TDiv(Q_ij * ENTROPY_SCALE, nt2) * DELTA_T, NORM_FACTOR)
                    ELSE ne
         IN  HeatLoop(ps, i, j + 1, nt2, ne2)

\* the loop of lines 112-118 taking up the heat of the warmer particles only
HeatGainedOnly(ps, i, nt, ne) ==
    LET warmer == { j \in DOMAIN ps : ps[j].temperature > ps[i].temperature }
    IN  <<nt + SumOver(warmer,
                       [j \in warmer |->
                           TDiv(HEAT_TRANSFER_COEFF * (ps[j].temperature - ps[i].temperature)
                                    * DELTA_T, NORM_FACTOR)]),
          ne>>

HeatIteration(ps, i, nt, ne) == HeatLoop(ps, i, 1, nt, ne)

(* update_positions: iteration i of the prange *)
\* update_positions without lines 132-134
Uncapped(vel) == vel

\* lines 131-134 with the cap at 0.999 * C_LIGHT
CapAtGammaClamp(vel) ==
    LET v2 == Norm2(vel)
    IN  IF v2 > GammaClamp * GammaClamp
        THEN <<TDiv(vel[1] * GammaClamp, ISqrt(v2)), TDiv(vel[2] * GammaClamp, ISqrt(v2))>>
        ELSE vel

CapVelocity(vel) ==
    LET v2 == Norm2(vel)
    IN  IF v2 > SpeedCap * SpeedCap
        THEN <<TDiv(vel[1] * SpeedCap, CSqrt(v2)), TDiv(vel[2] * SpeedCap, CSqrt(v2))>>
        ELSE vel

\* lines 128-129 with the force subtracted
AccelerateAway(p, f) ==
    <<p.velocity[1] - TDiv(f[1] * DELTA_T, p.mass),
      p.velocity[2] - TDiv(f[2] * DELTA_T, p.mass)>>

Accelerate(p, f) ==
    <<p.velocity[1] + TDiv(f[1] * DELTA_T, p.mass),
      p.velocity[2] + TDiv(f[2] * DELTA_T, p.mass)>>

\* the position advanced with the velocity as it is before the cap
MoveBeforeCap(p, f) ==
    LET a == Accelerate(p, f)
    IN  [p EXCEPT !.velocity = CapVelocity(a),
                  !.position = <<p.position[1] + a[1] * DELTA_T,
                                 p.position[2] + a[2] * DELTA_T>>]

MoveParticle(p, f) ==
    LET v == CapVelocity(Accelerate(p, f))
    IN  [p EXCEPT !.velocity = v,
                  !.position = <<p.position[1] + v[1] * DELTA_T,
                                 p.position[2] + v[2] * DELTA_T>>]

(* update_phases: iteration i of the prange *)
PhaseOf(temp) == IF temp < 500 THEN 0 ELSE IF temp < 2500 THEN 1 ELSE 2

(* update_quantum_states *)
GroupMembers(ps, eid) == { i \in DOMAIN ps : ps[i].entanglement_id = eid }

\* np.mean taken over the whole array instead of particles[field][indices]
MeanOfAll(ps, eid) ==
    TDiv(SumOver(DOMAIN ps, [i \in DOMAIN ps |-> ps[i].quantum_state]),
         Cardinality(DOMAIN ps))

\* the group's sum divided by the population size instead of the group size
MeanOverPopulation(ps, eid) ==
    TDiv(SumOver(GroupMembers(ps, eid),
                 [i \in GroupMembers(ps, eid) |-> ps[i].quantum_state]),
         Cardinality(DOMAIN ps))

GroupMean(ps, eid) ==
    LET indices == GroupMembers(ps, eid)
    IN  TDiv(SumOver(indices, [i \in indices |-> ps[i].quantum_state]),
             Cardinality(indices))

\* the loop over unique_ids, lowest id first
RECURSIVE SyncGroups(_, _)
SyncGroups(ps, ids) ==
    IF ids = {} THEN ps
    ELSE LET eid == CHOOSE e \in ids : \A o \in ids : e <= o
             avg_state == GroupMean(ps, eid)
             ps2 == [i \in DOMAIN ps |->
                        IF ps[i].entanglement_id = eid
                        THEN [ps[i] EXCEPT !.quantum_state = avg_state]
                        ELSE ps[i]]
         IN  SyncGroups(ps2, ids \ {eid})

update_quantum_states(ps) ==
    SyncGroups(ps, { ps[i].entanglement_id : i \in DOMAIN ps })

-----------------------------------------------------------------------------
(* src/pru_unified_sim.py: the simulation loop, lines 178-206 *)

\* the loop body with update_positions called before compute_heat_transfer
IntegratorFirstOrder ==
    <<"forces", "positions", "heat", "assign", "phases", "quantum", "stats">>

\* the calls of the loop body in program order; "heat", "positions" and
\* "phases" are prange loops
UnifiedLoopOrder == <<"forces", "heat", "assign", "positions", "phases", "quantum", "stats">>

PositionIn(seq, x) == CHOOSE k \in 1 .. Len(seq) : seq[k] = x

NextCall(p) == UnifiedLoopOrder[PositionIn(UnifiedLoopOrder, p) + 1]

\* the position inside the prange of call p, and back
LoopPc(p) ==
    CASE p = "heat" -> "heat_loop"
      [] p = "positions" -> "positions_loop"
      [] p = "phases" -> "phases_loop"

CallOfLoop(l) ==
    CASE l = "heat_loop" -> "heat"
      [] l = "positions_loop" -> "positions"
      [] l = "phases_loop" -> "phases"

\* the name the specification gives to the phase a call completes
PhaseName(p) ==
    CASE p = "forces"    -> <<"SpatialIndex", "ForceModel">>
      [] p = "assign"    -> <<"DiffusionModel">>
      [] p = "positions" -> <<"Integrator">>
      [] p = "phases"    -> <<"PhaseClassifier">>
      [] p = "quantum"   -> <<"GroupSynchronizer">>
      [] OTHER           -> <<>>

InitUnified ==
    /\ script = "unified"
    /\ runs = <<>>
    /\ pc = "forces"
    /\ step = 0
    \* the population of NUM_PARTICLES_COSMO particles, or of none
    /\ \E n \in {0, NUM_PARTICLES_COSMO} : particles \in [1 .. n -> ParticleSeeds]
    /\ forces = [i \in DOMAIN particles |-> <<0, 0>>]
    /\ new_temps = [i \in DOMAIN particles |-> 0]
    /\ new_entropy = [i \in DOMAIN particles |-> 0]
    /\ pending = {}
    /\ acc = {}
    /\ trace = <<>>
    /\ snap = particles
    /\ before = particles
    /\ tree = <<>>
    /\ positions = <<>>
    /\ IdleQr
    /\ IdleEvolution

\* line 179
U_ComputeForces ==
    /\ script = "unified" /\ pc = "forces"
    /\ forces' = compute_forces_kdtree(particles)
    /\ trace' = trace \o PhaseName("forces")
    /\ pc' = NextCall("forces")
    /\ before' = particles
    /\ UNCHANGED <<runs, positions, qv, ev, tree, script, step, particles, new_temps, new_entropy, pending, acc, snap>>

\* entry of a prange function: the workers are started (lines 107-110, 127, 146)
U_EnterPrange ==
    /\ script = "unified" /\ pc \in {"heat", "positions", "phases"}
    /\ pc' = LoopPc(pc)
    /\ pending' = DOMAIN particles
    /\ acc' = {}
    /\ before' = particles
    /\ IF pc = "heat"
       THEN /\ new_temps' = [i \in DOMAIN particles |-> particles[i].temperature]
            /\ new_entropy' = [i \in DOMAIN particles |-> particles[i].entropy]
       ELSE UNCHANGED <<positions, qv, ev, new_temps, new_entropy>>
    /\ UNCHANGED <<runs, positions, qv, ev, tree, script, step, particles, forces, trace, snap>>

\* the slots iteration i of compute_heat_transfer reads and writes
HeatAccesses(i) ==
    { <<i, "temperature", j, "r">> : j \in DOMAIN particles }
    \cup { <<i, "new_temps", i, m>> : m \in {"r", "w"} }
    \cup { <<i, "new_entropy", i, m>> : m \in {"r", "w"} }

\* lines 112-118, one iteration of the prange
U_HeatWorker(i) ==
    /\ script = "unified" /\ pc = "heat_loop" /\ i \in pending
    /\ LET r == HeatIteration(particles, i, new_temps[i], new_entropy[i])
       IN  /\ new_temps' = [new_temps EXCEPT ![i] = r[1]]
           /\ new_entropy' = [new_entropy EXCEPT ![i] = r[2]]
    /\ pending' = pending \ {i}
    /\ acc' = acc \cup HeatAccesses(i)
    /\ UNCHANGED <<runs, positions, qv, ev, tree, script, pc, step, particles, forces, trace, snap, before>>

\* lines 182-183
U_AssignHeat ==
    /\ script = "unified" /\ pc = "assign"
    /\ particles' = [i \in DOMAIN particles |->
                        [particles[i] EXCEPT !.temperature = new_temps[i],
                                             !.entropy = new_entropy[i]]]
    /\ trace' = trace \o PhaseName("assign")
    /\ pc' = NextCall("assign")
    /\ UNCHANGED <<runs, positions, qv, ev, tree, script, step, forces, new_temps, new_entropy, pending, acc, snap, before>>

PositionAccesses(i) ==
    { <<i, "forces", i, "r">>, <<i, "mass", i, "r">>,
      <<i, "velocity", i, "r">>, <<i, "velocity", i, "w">>,
      <<i, "position", i, "r">>, <<i, "position", i, "w">> }

\* lines 127-136, one iteration of the prange
U_PositionWorker(i) ==
    /\ script = "unified" /\ pc = "positions_loop" /\ i \in pending
    /\ particles' = [particles EXCEPT ![i] = MoveParticle(particles[i], forces[i])]
    /\ pending' = pending \ {i}
    /\ acc' = acc \cup PositionAccesses(i)
    /\ UNCHANGED <<runs, positions, qv, ev, tree, script, pc, step, forces, new_temps, new_entropy, trace, snap, before>>

PhaseAccesses(i) == { <<i, "temperature", i, "r">>, <<i, "phase", i, "w">> }

\* lines 146-153, one iteration of the prange
U_PhaseWorker(i) ==
    /\ script = "unified" /\ pc = "phases_loop" /\ i \in pending
    /\ particles' = [particles EXCEPT ![i].phase = PhaseOf(particles[i].temperature)]
    /\ pending' = pending \ {i}
    /\ acc' = acc \cup PhaseAccesses(i)
    /\ UNCHANGED <<runs, positions, qv, ev, tree, script, pc, step, forces, new_temps, new_entropy, trace, snap, before>>

\* the end of a prange: every iteration has run and the function returns
U_Barrier ==
    /\ script = "unified" /\ pc \in {"heat_loop", "positions_loop", "phases_loop"}
    /\ pending = {}
    /\ pc' = NextCall(CallOfLoop(pc))
    /\ trace' = trace \o PhaseName(CallOfLoop(pc))
    /\ UNCHANGED <<runs, positions, qv, ev, tree, script, step, particles, forces, new_temps, new_entropy, pending, acc,
                   snap, before>>

\* line 189
U_UpdateQuantumStates ==
    /\ script = "unified" /\ pc = "quantum"
    /\ particles' = update_quantum_states(particles)
    /\ before' = particles
    /\ trace' = trace \o PhaseName("quantum")
    /\ pc' = NextCall("quantum")
    /\ UNCHANGED <<runs, positions, qv, ev, tree, script, step, forces, new_temps, new_entropy, pending, acc, snap>>

\* lines 191-206 and the loop test of line 178
U_Stats ==
    /\ script = "unified" /\ pc = "stats"
    /\ IF DOMAIN particles = {}
       THEN \* the means of lines 191-195 are nan; np.min of an empty array
            \* raises ValueError at line 197 and the script ends
            /\ pc' = "error"
            /\ UNCHANGED <<step, trace, snap, before>>
       ELSE /\ step' = step + 1
            /\ pc' = IF step + 1 < TIME_STEPS THEN UnifiedLoopOrder[1] ELSE "done"
            /\ trace' = <<>>
            /\ snap' = particles
            /\ before' = particles
    /\ UNCHANGED <<runs, positions, qv, ev, tree, script, particles, forces, new_temps, new_entropy, pending, acc>>

NextUnified ==
    \/ U_ComputeForces
    \/ U_EnterPrange
    \/ \E i \in Idx : U_HeatWorker(i)
    \/ U_AssignHeat
    \/ \E i \in Idx : U_PositionWorker(i)
    \/ \E i \in Idx : U_PhaseWorker(i)
    \/ U_Barrier
    \/ U_UpdateQuantumStates
    \/ U_Stats

(* The script run with a population of one or two particles of the neutral  *)
(* types: the values lines 45-65 can draw for them.                         *)
\* model bound: the largest of these populations
PAIR_MAX == 2

PairSeeds ==
    { NewParticle("Neutron", <<0, 0>>,     <<0, 0>>,    100,  100, 0),
      NewParticle("Neutron", <<10, 0>>,    <<0, 0>>,    300,  300, 0),
      NewParticle("Neutron", <<6, 8>>,     <<0, 0>>,    500,  500, 1),
      NewParticle("Neutron", <<0, 0>>,     <<600, 0>>,  2500, 200, 1),
      NewParticle("Neutron", <<10, 0>>,    <<0, -600>>, 400,  400, 0),
      NewParticle("Neutron", <<300, 300>>, <<0, 0>>,    700,  700, 1),
      NewParticle("Neutron", <<0, 90>>,    <<999, 0>>,  900,  900, 0),
      NewParticle("Neutron", <<0, 0>>,     <<995, 0>>,  600,  600, 0),
      NewParticle("Neutron", <<10, 10>>,   <<0, 0>>,    4000, 900, 1) }

InitPair ==
    /\ script = "unified"
    /\ runs = <<>>
    /\ pc = "forces"
    /\ step = 0
    /\ \E n \in 1 .. PAIR_MAX : particles \in [1 .. n -> PairSeeds]
    /\ forces = [i \in DOMAIN particles |-> <<0, 0>>]
    /\ new_temps = [i \in DOMAIN particles |-> 0]
    /\ new_entropy = [i \in DOMAIN particles |-> 0]
    /\ pending = {}
    /\ acc = {}
    /\ trace = <<>>
    /\ snap = particles
    /\ before = particles
    /\ tree = <<>>
    /\ positions = <<>>
    /\ IdleQr
    /\ IdleEvolution


-----------------------------------------------------------------------------
(* src/pru_emergent_sim.py *)
(* The keyboard events (pause, reset, dt, trails) and the drawing state     *)
(* (memory, consciousness) are outside the loop body modelled here.        *)

\* model bounds: population size and number of loop iterations
E_NUM_PARTICLES == 3
E_STEPS == 2

E_K == 2               \* k of tree.query, scaled with the population
E_G == 1               \* G (derived)
E_COULOMB == 9000      \* 8.9875517923e9
E_SOFT == 1            \* the 1e-5 added to r
E_DT == 1              \* dt
SIM_WIDTH == 100       \* sim_width = sim_height
E_CONDUCTION == 100    \* 1 / 0.01, the conduction rate of update_temperature

EIdx == 1 .. E_NUM_PARTICLES
None == 0

\* particle_types; mass in tenths
particle_types ==
    [electron |-> [charge |-> -1, mass |-> 5],
     proton   |-> [charge |-> 1,  mass |-> 100],
     quantum  |-> [charge |-> 0,  mass |-> 10],
     qubit    |-> [charge |-> 0,  mass |-> 8]]

\* determine_phase with the thresholds 500 and 2500
determine_phase_500_2500(temperature) ==
    IF temperature < 50000 THEN "solid"
    ELSE IF temperature < 250000 THEN "liquid"
    ELSE "gas"

\* temperatures are held in hundredths of a kelvin
determine_phase(temperature) ==
    IF temperature < 29000 THEN "solid"
    ELSE IF temperature < 31000 THEN "liquid"
    ELSE "gas"

\* phase_friction * 0.01, in thousandths
phase_friction == [solid |-> 9, liquid |-> 5, gas |-> 1]

\* Particle.__init__ (the values the model draws)
E_Particle(ptype, pos, vel, temp) ==
    [particle_type |-> ptype, position |-> pos, velocity |-> vel,
     mass |-> particle_types[ptype].mass, charge |-> particle_types[ptype].charge,
     temperature |-> temp, phase |-> determine_phase(temp)]

E_Seeds ==
    { E_Particle("electron", <<10, 10>>, <<0, 0>>, 28500),
      E_Particle("proton",   <<13, 14>>, <<1, 0>>, 30000),
      E_Particle("quantum",  <<50, 50>>, <<0, -1>>, 31500),
      E_Particle("qubit",    <<12, 10>>, <<0, 0>>, 29500) }

\* init_particles: disjoint entangled pairs (lines 138-146)
E_Pairings ==
    { f \in [EIdx -> EIdx \cup {None}] :
        \A a \in EIdx : f[a] # None => (f[a] # a /\ f[f[a]] = a) }

\* squared distance of two points of any dimension
SqDist(a, b) == SumOver(DOMAIN a, [k \in DOMAIN a |-> (a[k] - b[k]) * (a[k] - b[k])])

\* KDTree.query(point, k): the k nearest indexed points, nearest first, ties by
\* index; a missing neighbor is reported as the index one past the last point
RECURSIVE KNearest(_, _, _, _)
KNearest(pts, point, k, left) ==
    IF k = 0 THEN <<>>
    ELSE IF left = {} THEN <<Cardinality(DOMAIN pts) + 1>> \o KNearest(pts, point, k - 1, left)
    ELSE LET best == CHOOSE b \in left : \A o \in left :
                        \/ SqDist(pts[b], point) < SqDist(pts[o], point)
                        \/ (SqDist(pts[b], point) = SqDist(pts[o], point) /\ b <= o)
         IN  <<best>> \o KNearest(pts, point, k - 1, left \ {best})

TreeQuery(pts, point, k) == KNearest(pts, point, k, DOMAIN pts)

RECURSIVE SeqSum(_)
SeqSum(seq) == IF seq = <<>> THEN 0 ELSE Head(seq) + SeqSum(Tail(seq))

\* Particle.interact: the contribution of one neighbor (lines 88-98)
E_PairForce(self, other) ==
    LET r_vec == <<other.position[1] - self.position[1],
                   other.position[2] - self.position[2]>>
        r == ISqrt(Norm2(r_vec)) + E_SOFT
        grav_force_mag == TDiv(E_G * self.mass * other.mass, r * r)
        em_force_mag == TDiv(E_COULOMB * self.charge * other.charge, r * r)
    IN  <<TDiv(r_vec[1] * grav_force_mag, r) + TDiv(r_vec[1] * em_force_mag, r),
          TDiv(r_vec[2] * grav_force_mag, r) + TDiv(r_vec[2] * em_force_mag, r)>>

\* Particle.interact over the neighbor list nb (indices into ps)
interact(ps, i, nb) ==
    <<SeqSum([n \in 1 .. Len(nb) |-> E_PairForce(ps[i], ps[nb[n]])[1]]),
      SeqSum([n \in 1 .. Len(nb) |-> E_PairForce(ps[i], ps[nb[n]])[2]])>>

\* Particle.update_temperature (lines 108-112)
update_temperature(ps, i, nb, dt) ==
    IF nb = <<>> THEN ps[i].temperature
    ELSE LET avg_temp == TDiv(SeqSum([n \in 1 .. Len(nb) |-> ps[nb[n]].temperature]),
                              Len(nb))
         IN  ps[i].temperature + TDiv((avg_temp - ps[i].temperature) * dt, E_CONDUCTION)

\* Particle.update (lines 118-132)
E_Update(ps, i, nb, dt) ==
    LET force == interact(ps, i, nb)
        acceleration == <<TDiv(force[1], ps[i].mass), TDiv(force[2], ps[i].mass)>>
        v1 == <<ps[i].velocity[1] + acceleration[1] * dt,
                ps[i].velocity[2] + acceleration[2] * dt>>
        p1 == <<ps[i].position[1] + v1[1] * dt, ps[i].position[2] + v1[2] * dt>>
        temp == update_temperature(ps, i, nb, dt)
        ph == determine_phase(temp)
        friction == phase_friction[ph]
        v2 == <<TDiv(v1[1] * (1000 - friction * dt), 1000),
                TDiv(v1[2] * (1000 - friction * dt), 1000)>>
    IN  [ps[i] EXCEPT !.velocity = v2,
                      !.position = <<p1[1] % SIM_WIDTH, p1[2] % SIM_WIDTH>>,
                      !.temperature = temp,
                      !.phase = ph]

\* the neighbor list of line 192: the queried indices without the particle's own
E_Neighbors(pts, ps, i) ==
    LET indices == TreeQuery(pts, ps[i].position, E_K)
    IN  SelectSeq(indices, LAMBDA j : j # i)

\* the update of one pair with the averaged state written to every particle
E_SyncEveryone(ps, a, b) ==
    LET new_position == <<TDiv(ps[a].position[1] + ps[b].position[1], 2),
                          TDiv(ps[a].position[2] + ps[b].position[2], 2)>>
        new_temperature == TDiv(ps[a].temperature + ps[b].temperature, 2)
    IN  [k \in DOMAIN ps |-> [ps[k] EXCEPT !.position = new_position,
                                           !.temperature = new_temperature,
                                           !.phase = determine_phase(new_temperature)]]

\* the update of one pair without lines 211-213: the phases are left as they were
E_SyncKeepingPhase(ps, a, b) ==
    LET new_position == <<TDiv(ps[a].position[1] + ps[b].position[1], 2),
                          TDiv(ps[a].position[2] + ps[b].position[2], 2)>>
        new_velocity == <<TDiv(ps[a].velocity[1] + ps[b].velocity[1], 2),
                          TDiv(ps[a].velocity[2] + ps[b].velocity[2], 2)>>
        new_temperature == TDiv(ps[a].temperature + ps[b].temperature, 2)
    IN  [k \in DOMAIN ps |->
            IF k \in {a, b} THEN [ps[k] EXCEPT !.position = new_position,
                                               !.velocity = new_velocity,
                                               !.temperature = new_temperature]
            ELSE ps[k]]

\* the entanglement update of one pair (lines 200-213)
E_SyncPair(ps, a, b) ==
    LET new_position == <<TDiv(ps[a].position[1] + ps[b].position[1], 2),
                          TDiv(ps[a].position[2] + ps[b].position[2], 2)>>
        new_velocity == <<TDiv(ps[a].velocity[1] + ps[b].velocity[1], 2),
                          TDiv(ps[a].velocity[2] + ps[b].velocity[2], 2)>>
        new_temperature == TDiv(ps[a].temperature + ps[b].temperature, 2)
        synced(p) == [p EXCEPT !.position = new_position,
                               !.velocity = new_velocity,
                               !.temperature = new_temperature,
                               !.phase = determine_phase(new_temperature)]
    IN  [k \in DOMAIN ps |-> IF k \in {a, b} THEN synced(ps[k]) ELSE ps[k]]

\* the loop of lines 198-213 from particle a on
RECURSIVE E_SyncFrom(_, _)
E_SyncFrom(ps, a) ==
    IF a > Cardinality(DOMAIN ps) THEN ps
    ELSE IF ps[a].entangled_partner # None /\ a < ps[a].entangled_partner
         THEN E_SyncFrom(E_SyncPair(ps, a, ps[a].entangled_partner), a + 1)
         ELSE E_SyncFrom(ps, a + 1)

entanglement_update(ps) == E_SyncFrom(ps, 1)

InitEmergent ==
    /\ script = "emergent"
    /\ runs = <<>>
    /\ pc = "tree"
    /\ step = 0
    /\ \E seeds \in [EIdx -> E_Seeds], partner \in E_Pairings :
          particles = [i \in EIdx |->
                          [id |-> i, entangled_partner |-> partner[i],
                           particle_type |-> seeds[i].particle_type,
                           position |-> seeds[i].position,
                           velocity |-> seeds[i].velocity,
                           mass |-> seeds[i].mass, charge |-> seeds[i].charge,
                           temperature |-> seeds[i].temperature,
                           phase |-> seeds[i].phase]]
    /\ forces = [i \in EIdx |-> <<0, 0>>]
    /\ new_temps = <<>>
    /\ new_entropy = <<>>
    /\ pending = {}
    /\ acc = {}
    /\ trace = <<>>
    /\ snap = particles
    /\ before = particles
    /\ tree = <<>>
    /\ positions = <<>>
    /\ IdleQr
    /\ IdleEvolution

\* lines 188-189
E_BuildTree ==
    /\ script = "emergent" /\ pc = "tree"
    /\ tree' = [i \in DOMAIN particles |-> particles[i].position]
    /\ pending' = DOMAIN particles
    /\ pc' = "update"
    /\ snap' = particles
    /\ before' = particles
    /\ trace' = <<>>
    /\ UNCHANGED <<runs, positions, qv, ev, script, step, particles, forces, new_temps, new_entropy, acc>>

\* lines 190-193: one iteration of the for loop, particles in list order
E_UpdateParticle ==
    /\ script = "emergent" /\ pc = "update" /\ pending # {}
    /\ LET i == CHOOSE k \in pending : \A o \in pending : k <= o
           nb == E_Neighbors(tree, particles, i)
       IN  IF \E n \in 1 .. Len(nb) : nb[n] \notin DOMAIN particles
           THEN \* particles[i] of line 192 raises IndexError
                /\ pc' = "crashed"
                /\ UNCHANGED <<positions, qv, ev, particles, forces, pending>>
           ELSE /\ particles' = [particles EXCEPT ![i] = E_Update(particles, i, nb, E_DT)]
                /\ forces' = [forces EXCEPT ![i] = interact(particles, i, nb)]
                /\ pending' = pending \ {i}
                /\ pc' = pc
    /\ UNCHANGED <<runs, positions, qv, ev, script, step, new_temps, new_entropy, acc, trace, snap, before, tree>>

\* line 194
E_CountStep ==
    /\ script = "emergent" /\ pc = "update" /\ pending = {}
    /\ step' = step + 1
    /\ pc' = "entangle"
    /\ before' = particles
    /\ UNCHANGED <<runs, positions, qv, ev, script, particles, forces, new_temps, new_entropy, pending, acc, trace,
                   snap, tree>>

\* lines 198-213
E_Entangle ==
    /\ script = "emergent" /\ pc = "entangle"
    /\ particles' = entanglement_update(particles)
    /\ pc' = IF step < E_STEPS THEN "tree" ELSE "done"
    /\ UNCHANGED <<runs, positions, qv, ev, script, step, forces, new_temps, new_entropy, pending, acc, trace,
                   snap, before, tree>>

NextEmergent ==
    \/ E_BuildTree
    \/ E_UpdateParticle
    \/ E_CountStep
    \/ E_Entangle


-----------------------------------------------------------------------------
(* src/pru_universe_simulation.py *)

\* model bounds: population size and number of loop iterations
num_particles == 3
time_steps == 2

neighbors == 2         \* neighbors = 10, scaled with the population
Q_C == 1000            \* c; velocities are held in thousandths of c
Q_G == 1000000         \* G
epsilon == 1000000     \* epsilon
Q_DT == 1              \* dt
RADIAN == 1000         \* the 1e-9 of line 59: positions are held in 1e-12 m

QIdx == 1 .. num_particles

Max(a, b) == IF a >= b THEN a ELSE b

\* cos of an angle in thousandths of a radian, in thousandths
CosQuadrant(a) ==
    LET a2k == (a * a) \div 1000
    IN  1000 - a2k \div 2 + (a2k * a2k) \div 24000

Cos1000(angle) ==
    LET m == angle % 6283
        h == IF m > 3141 THEN 6283 - m ELSE m
    IN  IF h > 1570 THEN -CosQuadrant(3141 - h) ELSE CosQuadrant(h)

\* the initial values the model draws for one particle (lines 23-26)
Q_Seeds ==
    { [pos |-> <<100, 200, 300>>, vel |-> <<400, -300, 0>>, mass |-> 1, spin |-> 1],
      [pos |-> <<150, 200, 300>>, vel |-> <<-400, 0, 100>>, mass |-> 2, spin |-> -1],
      [pos |-> <<900, 900, 100>>, vel |-> <<0, 0, 0>>, mass |-> 3, spin |-> 1],
      [pos |-> <<0, 0, 0>>, vel |-> <<100, 100, 100>>, mass |-> 1, spin |-> -1] }

\* update_neighbor_indices (lines 33-37)
update_neighbor_indices(pos) ==
    [i \in DOMAIN pos |-> TreeQuery(pos, pos[i], neighbors)]

\* the neighbors iteration i correlates with (lines 53-56)
Q_Correlated(ni, i) == SelectSeq(ni[i], LAMBDA n : n # -1 /\ n # i)

\* lines 59-61 for one neighbor
Q_Correlation(pos, sp, i, n) ==
    LET angle_diff == (ISqrt(SqDist(pos[i], pos[n])) * 1000) \div RADIAN
        c == Cos1000(angle_diff \div 2)
        correlation == (c * c) \div 1000
    IN  sp[i] * sp[n] * correlation

\* masses[k] with numpy's wrap-around of the index -1
Q_MassAt(ms, k) == IF k = -1 THEN ms[Len(ms)] ELSE ms[k]

\* 1 - velocity_squared / c ** 2 of line 67, times c ** 2
Q_Radicand(v) == Q_C * Q_C - SqDist(v, <<0, 0, 0>>)

\* iteration i of update_pru_quantum_relativity (lines 52-73):
\* <<positions[i], velocities[i], entanglement_correlations[i], time_dilation_factors[i]>>
Q_Iteration(pos, vel, ms, sp, ni, i) ==
    LET nb == Q_Correlated(ni, i)
        spin_correlation == SeqSum([n \in 1 .. Len(nb) |-> Q_Correlation(pos, sp, i, nb[n])])
        velocity_squared == SqDist(vel[i], <<0, 0, 0>>)
        gamma == TDiv(100 * Q_C, ISqrt(Q_Radicand(vel[i])))
        mass_sum == SeqSum([n \in 1 .. Len(ni[i]) |-> Q_MassAt(ms, ni[i][n])])
        acceleration == -TDiv(Q_G * mass_sum, SqDist(pos[i], <<0, 0, 0>>) + epsilon)
        dv == TDiv(acceleration * Q_DT * gamma, 100)
        v == [k \in 1 .. 3 |-> vel[i][k] + dv]
    IN  << [k \in 1 .. 3 |-> pos[i][k] + v[k] * Q_DT], v,
           TDiv(spin_correlation, Max(1, neighbors)), gamma >>

\* the array slots iteration i reads and writes
Q_Accesses(ni, i) ==
    { <<i, "positions", ni[i][n], "r">> : n \in { m \in 1 .. Len(ni[i]) : ni[i][m] \notin {-1, i} } }
    \cup { <<i, "spins", ni[i][n], "r">> : n \in { m \in 1 .. Len(ni[i]) : ni[i][m] \notin {-1, i} } }
    \cup { <<i, "masses", ni[i][n], "r">> : n \in 1 .. Len(ni[i]) }
    \cup { <<i, a, i, "r">> : a \in {"positions", "velocities", "spins", "neighbor_indices"} }
    \cup { <<i, a, i, "w">> : a \in {"positions", "velocities", "entanglement_correlations",
                                     "time_dilation_factors"} }

InitQr ==
    /\ script = "qr"
    /\ runs = <<>>
    /\ pc = "neighbors"
    /\ step = 0
    /\ \E seeds \in [QIdx -> Q_Seeds] :
          /\ positions = [i \in QIdx |-> seeds[i].pos]
          /\ velocities = [i \in QIdx |-> seeds[i].vel]
          /\ masses = [i \in QIdx |-> seeds[i].mass]
          /\ spins = [i \in QIdx |-> seeds[i].spin]
    \* line 30 and the call of line 40
    /\ neighbor_indices = update_neighbor_indices(positions)
    /\ entanglement_correlations = [i \in QIdx |-> 0]
    /\ time_dilation_factors = [i \in QIdx |-> 0]
    /\ pending = {}
    /\ acc = {}
    /\ trace = <<>>
    /\ snap = <<>>
    /\ before = <<>>
    /\ IdleUnified
    /\ IdleEvolution

\* line 87
Q_UpdateNeighborIndices ==
    /\ script = "qr" /\ pc = "neighbors"
    /\ neighbor_indices' = update_neighbor_indices(positions)
    /\ pc' = "update"
    /\ UNCHANGED <<runs, script, step, pending, acc, trace, snap, before, positions, uv, ev,
                   velocities, masses, spins, entanglement_correlations,
                   time_dilation_factors>>

\* lines 45-46: the call of update_pru_quantum_relativity starts its workers
Q_Enter ==
    /\ script = "qr" /\ pc = "update"
    /\ entanglement_correlations' = [i \in QIdx |-> 0]
    /\ time_dilation_factors' = [i \in QIdx |-> 0]
    /\ pending' = QIdx
    /\ acc' = {}
    /\ before' = positions
    /\ pc' = "update_loop"
    /\ UNCHANGED <<runs, script, step, trace, snap, positions, uv, ev, velocities, masses, spins,
                   neighbor_indices>>

\* lines 48-73, one iteration of the prange
Q_Worker(i) ==
    /\ script = "qr" /\ pc = "update_loop" /\ i \in pending
    /\ IF \E n \in 1 .. Len(neighbor_indices[i]) : neighbor_indices[i][n] > num_particles
       THEN \* an index past the arrays is read without a bounds check
            /\ pc' = "undefined"
            /\ UNCHANGED <<positions, velocities, entanglement_correlations,
                           time_dilation_factors, pending, acc>>
       ELSE LET r == Q_Iteration(positions, velocities, masses, spins, neighbor_indices, i)
            IN  /\ positions' = [positions EXCEPT ![i] = r[1]]
                /\ velocities' = [velocities EXCEPT ![i] = r[2]]
                /\ entanglement_correlations' = [entanglement_correlations EXCEPT ![i] = r[3]]
                /\ time_dilation_factors' = [time_dilation_factors EXCEPT ![i] = r[4]]
                /\ pending' = pending \ {i}
                /\ acc' = acc \cup Q_Accesses(neighbor_indices, i)
                /\ pc' = pc
    /\ UNCHANGED <<runs, script, step, trace, snap, before, uv, ev, masses, spins, neighbor_indices>>

\* line 75: every iteration has run and the function returns
Q_Return ==
    /\ script = "qr" /\ pc = "update_loop" /\ pending = {}
    /\ pc' = "record"
    /\ UNCHANGED <<runs, script, step, pending, acc, trace, snap, before, positions, uv, qv, ev>>

\* lines 94-108 and the loop test of line 85
Q_Record ==
    /\ script = "qr" /\ pc = "record"
    /\ step' = step + 1
    /\ pc' = IF step + 1 < time_steps THEN "neighbors" ELSE "done"
    /\ UNCHANGED <<runs, script, pending, acc, trace, snap, before, positions, uv, qv, ev>>

NextQr ==
    \/ Q_UpdateNeighborIndices
    \/ Q_Enter
    \/ \E i \in QIdx : Q_Worker(i)
    \/ Q_Return
    \/ Q_Record


-----------------------------------------------------------------------------
(* src/pru_evolution.py *)
(* resonance, truth and alignment are held in thousandths, harmony_index   *)
(* in millionths.  Every entry of a per-particle array carries, beside its *)
(* value v, the identity id of the particle it was created for; no         *)
(* operation of the script reads id.                                       *)

\* model bounds: initial and largest population, number of loop iterations
NUM_NODES == 3
EV_MAX_NODES == 4
EV_TIME_STEPS == 5

RELATION_RADIUS == 75
CREATION_THRESHOLD == 1200000
CONFLICT_THRESHOLD == 400000
REBUILD_EVERY == 10    \* the 10 of t % 10 == 0
INFLUENCE_RATE == 20   \* 1 / 0.05

\* the initial values the model draws for one node (lines 17-21)
EV_Seeds ==
    { [pos |-> <<0, 0, 0>>,   res |-> 1000, pol |-> 1,  truth |-> 900, align |-> 1000],
      [pos |-> <<72, 0, 0>>,  res |-> 1000, pol |-> 1,  truth |-> 900, align |-> 1000],
      [pos |-> <<140, 0, 0>>, res |-> 650,  pol |-> -1, truth |-> 850, align |-> 500],
      [pos |-> <<140, 0, 0>>, res |-> 700,  pol |-> -1, truth |-> 650, align |-> -1000] }

\* np.random.normal(0, 5, ...): the perturbations the model draws
EV_Noise == { <<0, 0, 0>>, <<5, -5, 0>> }

Ids(arr) == [k \in 1 .. Len(arr) |-> arr[k].id]

\* build_relation_map (lines 24-33): an N x N matrix, a sequence of rows
build_relation_map(pos, radius) ==
    Eager([i \in 1 .. Len(pos) |->
              Eager([j \in 1 .. Len(pos) |->
                        i # j /\ SqDist(pos[i].v, pos[j].v) < radius * radius])])

\* the flat offsets compute_field_influence reads past the end of the map's
\* buffer when it is called for n particles
StaleOffsets(rm, n) ==
    { o \in 0 .. Max(0, (n - 1) * Len(rm) + (n - 1)) : o >= Len(rm) * Len(rm) }

\* relation_map[i, j] as compiled: the element at offset i * M + j of the
\* buffer, whatever the shape; past the buffer, the bit found there
MapRead(rm, i, j, garbage) ==
    LET M == Len(rm)
        o == (i - 1) * M + (j - 1)
    IN  IF o < M * M THEN rm[(o \div M) + 1][(o % M) + 1] ELSE garbage[o]

\* iteration i of compute_field_influence (lines 41-51): <<new_resonance[i], new_truth[i]>>
FieldIteration(res, pol, tr, al, rm, garbage, i) ==
    LET related == { j \in 1 .. Len(res) : MapRead(rm, i, j, garbage) }
        influence(j) == 1000 + pol[i].v * pol[j].v * al[j].v
        sum_res == SumOver(related, [j \in related |-> TDiv(res[j].v * influence(j), 1000)])
        sum_truth == SumOver(related, [j \in related |-> TDiv(tr[j].v * influence(j), 1000)])
        count == Cardinality(related)
    IN  IF count > 0
        THEN << res[i].v + TDiv(TDiv(sum_res, count) - res[i].v, INFLUENCE_RATE),
                tr[i].v + TDiv(TDiv(sum_truth, count) - tr[i].v, INFLUENCE_RATE) >>
        ELSE << res[i].v, tr[i].v >>

\* harmony_index = resonance * truth, by index
Harmony(res, tr, k) == res[k].v * tr[k].v

\* x[mask]: the entries of arr under the mask, in order
Masked(arr, mask) ==
    LET sel == SelectSeq([k \in 1 .. Len(arr) |-> k], LAMBDA k : mask[k])
    IN  Eager([n \in 1 .. Len(sel) |-> arr[sel[n]]])

\* x[keep]
Compress(arr, keep) == Masked(arr, keep)

\* the largest identity in use
MaxId(arr) == IF arr = <<>> THEN 0 ELSE CHOOSE m \in { arr[k].id : k \in 1 .. Len(arr) } :
                                            \A k \in 1 .. Len(arr) : arr[k].id <= m

\* compute_field_influence (lines 36-53): <<new_resonance, new_truth>>
compute_field_influence(res, pol, tr, al, rm, garbage) ==
    LET new == Eager([i \in 1 .. Len(res) |->
                          FieldIteration(res, pol, tr, al, rm, garbage, i)])
    IN  << Eager([i \in 1 .. Len(res) |-> [res[i] EXCEPT !.v = new[i][1]]]),
           Eager([i \in 1 .. Len(res) |-> [tr[i] EXCEPT !.v = new[i][2]]]) >>

\* the array slots the iterations of compute_field_influence may read and
\* write: iteration i reads row i of the map and, for every j the map may
\* relate to i, slot j of the four arrays
FieldAccesses(res, rm) ==
    LET M == Len(rm)
        may(i, j) == IF (i - 1) * M + (j - 1) < M * M
                     THEN MapRead(rm, i, j, <<>>) ELSE TRUE
    IN  UNION { { <<i, "relation_map", <<i, j>>, "r">> : j \in 1 .. Len(res) }
                \cup { <<i, a, j, "r">> : a \in {"polarity", "alignment", "resonance", "truth"},
                                          j \in { k \in 1 .. Len(res) : may(i, k) } }
                \cup { <<i, a, i, "r">> : a \in {"polarity", "resonance", "truth"} }
                \cup { <<i, a, i, "w">> : a \in {"new_resonance", "new_truth"} }
              : i \in 1 .. Len(res) }

\* the array slots the iterations of build_relation_map read and write
BuildAccesses(pos, radius) ==
    UNION { { <<i, "pos", j, "r">> : j \in i .. Len(pos) }
            \cup UNION { { <<i, "relation_map", <<i, j>>, "w">>,
                           <<i, "relation_map", <<j, i>>, "w">> }
                         : j \in { k \in (i + 1) .. Len(pos) :
                                     SqDist(pos[i].v, pos[k].v) < radius * radius } }
          : i \in 1 .. Len(pos) }

\* create_mask of line 70 and conflict_mask of line 90
CreateMask(res, tr) ==
    Eager([k \in 1 .. Len(res) |-> Harmony(res, tr, k) > CREATION_THRESHOLD])
ConflictMask(res, tr) ==
    Eager([k \in 1 .. Len(res) |-> Harmony(res, tr, k) < CONFLICT_THRESHOLD])

\* the five arrays after lines 92-98 with the alignment array left as it was
RemoveForgettingAlignment(st) ==
    LET conflict_mask == ConflictMask(st.resonance, st.truth)
        keep == [k \in 1 .. Len(conflict_mask) |-> ~conflict_mask[k]]
    IN  [positions |-> Compress(st.positions, keep),
         resonance |-> Compress(st.resonance, keep),
         polarity  |-> Compress(st.polarity, keep),
         truth     |-> Compress(st.truth, keep),
         alignment |-> st.alignment]

\* the five arrays after lines 89-98
RemoveConflicts(st) ==
    LET conflict_mask == ConflictMask(st.resonance, st.truth)
        keep == [k \in 1 .. Len(conflict_mask) |-> ~conflict_mask[k]]
    IN  IF \E k \in 1 .. Len(conflict_mask) : conflict_mask[k]
        THEN [positions |-> Compress(st.positions, keep),
              resonance |-> Compress(st.resonance, keep),
              polarity  |-> Compress(st.polarity, keep),
              truth     |-> Compress(st.truth, keep),
              alignment |-> Compress(st.alignment, keep)]
        ELSE st

\* the five arrays after lines 74-86 for the mask of line 70; noise[n] perturbs
\* the n-th offspring, which gets the identity first + n
AppendOffspring(st, mask, noise, first) ==
    LET born(arr, f(_)) ==
            LET new == Masked(arr, mask)
            IN  Eager([n \in 1 .. Len(new) |-> [f(new[n]) EXCEPT !.id = first + n]])
        new_pos == LET raw == born(st.positions, LAMBDA e : e)
                   IN  Eager([n \in 1 .. Len(raw) |->
                                 [raw[n] EXCEPT !.v = Eager([k \in 1 .. 3 |->
                                                               raw[n].v[k] + noise[n][k]])]])
    IN  IF \E k \in 1 .. Len(mask) : mask[k]
        THEN [positions |-> st.positions \o new_pos,
              resonance |-> st.resonance
                            \o born(st.resonance, LAMBDA e : [e EXCEPT !.v = TDiv(e.v * 95, 100)]),
              polarity  |-> st.polarity
                            \o born(st.polarity, LAMBDA e : [e EXCEPT !.v = e.v * (-1)]),
              truth     |-> st.truth
                            \o born(st.truth, LAMBDA e : [e EXCEPT !.v = TDiv(e.v * 98, 100)]),
              alignment |-> st.alignment \o born(st.alignment, LAMBDA e : e)]
        ELSE st

\* the creation of lines 69-86 run on the population left by the removal
OffspringOfSurvivors(st, noise, first) ==
    LET left == RemoveConflicts(st)
    IN  AppendOffspring(left, CreateMask(left.resonance, left.truth), noise, first)

\* lines 69-86 with new_pol taken from polarity[create_mask] unchanged
OffspringOfSamePolarity(st, noise, first) ==
    LET r == AppendOffspring(st, CreateMask(st.resonance, st.truth), noise, first)
    IN  [r EXCEPT !.polarity =
            Eager([k \in 1 .. Len(r.polarity) |->
                      IF k <= Len(st.polarity) THEN r.polarity[k]
                      ELSE [r.polarity[k] EXCEPT !.v = 0 - r.polarity[k].v]])]

\* lines 69-86: the masks of the population as it is, then its offspring appended
Offspring(st, noise, first) ==
    AppendOffspring(st, CreateMask(st.resonance, st.truth), noise, first)

Arrays == [positions |-> positions, resonance |-> resonance, polarity |-> polarity,
           truth |-> truth, alignment |-> alignment]

NumTrue(mask) == Cardinality({ k \in 1 .. Len(mask) : mask[k] })

InitEvolution ==
    /\ script = "evolution"
    /\ runs = <<>>
    /\ pc = "field"
    /\ step = 0
    /\ \E seeds \in [1 .. NUM_NODES -> EV_Seeds] :
          /\ positions = [i \in 1 .. NUM_NODES |-> [id |-> i, v |-> seeds[i].pos]]
          /\ resonance = [i \in 1 .. NUM_NODES |-> [id |-> i, v |-> seeds[i].res]]
          /\ polarity = [i \in 1 .. NUM_NODES |-> [id |-> i, v |-> seeds[i].pol]]
          /\ truth = [i \in 1 .. NUM_NODES |-> [id |-> i, v |-> seeds[i].truth]]
          /\ alignment = [i \in 1 .. NUM_NODES |-> [id |-> i, v |-> seeds[i].align]]
    \* line 63
    /\ relation_map = build_relation_map(positions, RELATION_RADIUS)
    /\ pending = {}
    /\ acc = {}
    /\ trace = <<>>
    /\ snap = Arrays
    /\ before = Arrays
    /\ IdleUnified
    /\ IdleQr

\* line 66
EV_FieldInfluence ==
    /\ script = "evolution" /\ pc = "field"
    /\ \E garbage \in [StaleOffsets(relation_map, Len(resonance)) -> BOOLEAN] :
          LET new == compute_field_influence(resonance, polarity, truth, alignment,
                                             relation_map, garbage)
          IN  /\ resonance' = new[1]
              /\ truth' = new[2]
    /\ acc' = FieldAccesses(resonance, relation_map)
    /\ pc' = "create"
    /\ snap' = Arrays
    /\ UNCHANGED <<runs, script, step, pending, trace, before, positions, uv, qv, polarity,
                   alignment, relation_map>>

\* lines 69-86
EV_Create ==
    /\ script = "evolution" /\ pc = "create"
    /\ LET num_new == NumTrue(CreateMask(resonance, truth))
       IN  /\ Len(resonance) + num_new <= EV_MAX_NODES
           /\ \E noise \in [1 .. num_new -> EV_Noise] :
                 LET st == Offspring(Arrays, noise, MaxId(positions))
                 IN  /\ positions' = st.positions
                     /\ resonance' = st.resonance
                     /\ polarity' = st.polarity
                     /\ truth' = st.truth
                     /\ alignment' = st.alignment
    /\ before' = Arrays
    /\ pc' = "remove"
    /\ UNCHANGED <<runs, script, step, pending, acc, trace, snap, uv, qv, relation_map>>

\* lines 89-98
EV_Remove ==
    /\ script = "evolution" /\ pc = "remove"
    /\ LET st == RemoveConflicts(Arrays)
       IN  /\ positions' = st.positions
           /\ resonance' = st.resonance
           /\ polarity' = st.polarity
           /\ truth' = st.truth
           /\ alignment' = st.alignment
    /\ pc' = "rebuild"
    /\ UNCHANGED <<runs, script, step, pending, acc, trace, snap, before, uv, qv, relation_map>>

\* lines 100-106 and the loop test of line 65
EV_Rebuild ==
    /\ script = "evolution" /\ pc = "rebuild"
    /\ IF step % REBUILD_EVERY = 0
       THEN /\ relation_map' = build_relation_map(positions, RELATION_RADIUS)
            /\ acc' = BuildAccesses(positions, RELATION_RADIUS)
       ELSE UNCHANGED <<relation_map, acc>>
    /\ step' = step + 1
    /\ pc' = IF step + 1 < EV_TIME_STEPS THEN "field" ELSE "done"
    /\ UNCHANGED <<runs, script, pending, trace, snap, before, positions, uv, qv, resonance,
                   polarity, truth, alignment>>

NextEvolution ==
    \/ EV_FieldInfluence
    \/ EV_Create
    \/ EV_Remove
    \/ EV_Rebuild

-----------------------------------------------------------------------------
-----------------------------------------------------------------------------
(* src/pru_unified_sim.py: the module-level initialisation, lines 45-65, as   *)
(* two independent runs of the script execute it.  numpy's global generator  *)
(* is a state machine: a draw returns a value and advances the state,        *)
(* np.random.seed sets the state, and a generator that was never seeded      *)
(* starts in a state taken from the operating system.                       *)

\* model bound: the number of states of the generator
RNG_STATES == 8

SEED == 42

PARTICLE_TYPES == <<"Electron", "Proton", "Neutron", "Star">>

\* the generator state after one draw, after n draws, and the n-th value drawn
Advance(g) == (5 * g + 3) % RNG_STATES

RECURSIVE AdvanceBy(_, _)
AdvanceBy(g, n) == IF n = 0 THEN g ELSE AdvanceBy(Advance(g), n - 1)

DrawAt(g, n) == AdvanceBy(g, n - 1)

\* np.random.choice(PARTICLE_TYPES, NUM_PARTICLES_COSMO) from state g
ChooseTypes(g) ==
    [i \in Idx |-> PARTICLE_TYPES[(DrawAt(g, i) % Len(PARTICLE_TYPES)) + 1]]

\* the tuple of lines 55-65 for a particle of type ptype, its seven random
\* values drawn from state g
DrawParticle(ptype, g) ==
    NewParticle(ptype,
                <<DrawAt(g, 1) - 4, DrawAt(g, 2) - 4>>,
                <<(DrawAt(g, 3) % 3) - 1, (DrawAt(g, 4) % 3) - 1>>,
                100 + 700 * DrawAt(g, 5),
                100 * DrawAt(g, 6),
                DrawAt(g, 7) % 3)

Runs == 1 .. 2

InitTwoRuns ==
    /\ script = "unified_init"
    /\ runs \in [Runs -> { [line |-> "choice", rng |-> g, particle_types_list |-> <<>>,
                            particles_cosmo |-> <<>>] : g \in 0 .. RNG_STATES - 1 }]
    /\ pc = "init"
    /\ step = 0
    /\ pending = {} /\ acc = {} /\ trace = <<>> /\ snap = <<>> /\ before = <<>>
    /\ positions = <<>>
    /\ IdleUnified
    /\ IdleQr
    /\ IdleEvolution

\* line 45, in run r
I_ChooseTypes(r) ==
    /\ script = "unified_init" /\ runs[r].line = "choice"
    /\ runs' = [runs EXCEPT ![r].particle_types_list = ChooseTypes(runs[r].rng),
                            ![r].rng = AdvanceBy(runs[r].rng, NUM_PARTICLES_COSMO),
                            ![r].line = "seed"]
    /\ UNCHANGED <<script, pc, step, pending, acc, trace, snap, before, positions, uv, qv, ev>>

\* lines 48-49, in run r
I_Seed(r) ==
    /\ script = "unified_init" /\ runs[r].line = "seed"
    /\ runs' = [runs EXCEPT ![r].rng = SEED % RNG_STATES, ![r].line = "fill"]
    /\ UNCHANGED <<script, pc, step, pending, acc, trace, snap, before, positions, uv, qv, ev>>

\* lines 53-65, one iteration of the loop in run r
I_FillParticle(r) ==
    /\ script = "unified_init" /\ runs[r].line = "fill"
    /\ LET i == Len(runs[r].particles_cosmo) + 1
           p_type == runs[r].particle_types_list[i]
       IN  runs' = [runs EXCEPT
                       ![r].particles_cosmo = Append(@, DrawParticle(p_type, runs[r].rng)),
                       ![r].rng = AdvanceBy(@, 7),
                       ![r].line = IF i = NUM_PARTICLES_COSMO THEN "loop" ELSE "fill"]
    /\ UNCHANGED <<script, pc, step, pending, acc, trace, snap, before, positions, uv, qv, ev>>

NextTwoRuns ==
    \/ \E r \in Runs : I_ChooseTypes(r)
    \/ \E r \in Runs : I_Seed(r)
    \/ \E r \in Runs : I_FillParticle(r)

-----------------------------------------------------------------------------
(* src/pru_simulation.py *)
(* The drawing, the camera, the pause key and the time-speed keys are       *)
(* outside the loop body modelled here; time_speed is 1.  A name is the     *)
(* sequence of the names it was concatenated from.                          *)

\* model bounds: the bodies create_initial_particles adds to the Sun, the
\* largest population the events may build, and the number of frames
S_BODIES == 3
S_MAX == 5
S_FRAMES == 3

G_SIM == 1             \* 6e-11
EPSILON == 1           \* 1e-2
DT == 1                \* DT * time_speed
QUERY_K == 4           \* k of kdtree.query

\* the Sun of SOLAR_SYSTEM as create_particle_from_dict builds it (lines 197-219)
SUN == [name |-> <<"Sun">>, position |-> <<50, 50>>, velocity |-> <<0, 0>>,
        mass |-> 1000, visual_radius |-> 10, fixed |-> TRUE]

\* the planets and asteroids the model draws (lines 223-233); the first lies
\* inside the Sun's visual radius, as Mercury does
S_Seeds ==
    { [name |-> <<"Mercury">>,  position |-> <<52, 50>>, velocity |-> <<0, 3>>,
       mass |-> 3, visual_radius |-> 2, fixed |-> FALSE],
      [name |-> <<"Asteroid">>, position |-> <<20, 20>>, velocity |-> <<1, 0>>,
       mass |-> 5, visual_radius |-> 4, fixed |-> FALSE],
      [name |-> <<"Asteroid">>, position |-> <<22, 20>>, velocity |-> <<0, 0>>,
       mass |-> 7, visual_radius |-> 4, fixed |-> FALSE],
      [name |-> <<"Asteroid">>, position |-> <<21, 22>>, velocity |-> <<0, -1>>,
       mass |-> 2, visual_radius |-> 6, fixed |-> FALSE],
      [name |-> <<"Asteroid">>, position |-> <<80, 80>>, velocity |-> <<0, 0>>,
       mass |-> 4, visual_radius |-> 3, fixed |-> FALSE] }

\* the bodies the events add: create_random_particle, create_random_blackhole
\* and the planet of key n (lines 236-264, 368-407)
S_NewBodies ==
    { [name |-> <<"Custom">>,    position |-> <<23, 21>>, velocity |-> <<0, 0>>,
       mass |-> 6, visual_radius |-> 5, fixed |-> FALSE],
      [name |-> <<"BlackHole">>, position |-> <<60, 60>>, velocity |-> <<0, 0>>,
       mass |-> 500, visual_radius |-> 3, fixed |-> FALSE],
      [name |-> <<"Planet">>,    position |-> <<50, 70>>, velocity |-> <<2, 0>>,
       mass |-> 6, visual_radius |-> 4, fixed |-> FALSE] }

\* compute_force (lines 132-140): the sum over the neighbor list nl
compute_force(pos, nl) ==
    LET term(n, d) ==
            LET diff0 == n.position[1] - pos[1]
                diff1 == n.position[2] - pos[2]
                dist == ISqrt(diff0 * diff0 + diff1 * diff1) + EPSILON
            IN  TDiv(G_SIM * n.mass * (IF d = 1 THEN diff0 ELSE diff1), dist * dist * dist)
    IN  <<SeqSum([k \in 1 .. Len(nl) |-> term(nl[k], 1)]),
          SeqSum([k \in 1 .. Len(nl) |-> term(nl[k], 2)])>>

\* line 151 and the filter of line 153: the indices queried for particle i
\* without i itself
S_NeighborIdx(pts, i) ==
    SelectSeq(TreeQuery(pts, pts[i], QUERY_K), LAMBDA j : j # i)

\* the loop of lines 148-161 from particle i on, over the list ps, with the
\* tree built from pts; raised says that line 153 raised IndexError
RECURSIVE UniverseFrom(_, _, _)
UniverseFrom(ps, pts, i) ==
    IF i > Len(ps) THEN [particles |-> ps, raised |-> FALSE]
    ELSE IF ps[i].fixed THEN UniverseFrom(ps, pts, i + 1)
    ELSE LET idx == S_NeighborIdx(pts, i)
         IN  IF \E n \in 1 .. Len(idx) : idx[n] \notin DOMAIN ps
             THEN [particles |-> ps, raised |-> TRUE]
             ELSE IF idx = <<>> THEN UniverseFrom(ps, pts, i + 1)
             ELSE LET force == compute_force(ps[i].position,
                                             [n \in 1 .. Len(idx) |-> ps[idx[n]]])
                      v == <<ps[i].velocity[1] + force[1] * DT,
                             ps[i].velocity[2] + force[2] * DT>>
                      moved == [ps[i] EXCEPT
                                   !.velocity = v,
                                   !.position = <<ps[i].position[1] + v[1] * DT,
                                                  ps[i].position[2] + v[2] * DT>>]
                  IN  UniverseFrom(Eager([ps EXCEPT ![i] = moved]), pts, i + 1)

\* update_universe (lines 143-161)
update_universe(ps) ==
    UniverseFrom(ps, Eager([i \in 1 .. Len(ps) |-> ps[i].position]), 1)

\* the floor of the cube root
ICbrt(n) == CHOOSE r \in 0 .. n : r * r * r <= n /\ n < (r + 1) * (r + 1) * (r + 1)

\* the test of line 178: the distance is below half the sum of the radii
TooClose(p1, p2) ==
    4 * SqDist(p1.position, p2.position)
        < (p1.visual_radius + p2.visual_radius) * (p1.visual_radius + p2.visual_radius)

\* the test of lines 176-178 with the fixed bodies taken like the others
CollidesFixedOrNot(p1, p2) == TooClose(p1, p2)

\* lines 176-178: the pair is merged
Collides(p1, p2) == ~(p1.fixed \/ p2.fixed) /\ TooClose(p1, p2)

\* the particle of lines 179-186
MergedParticle(p1, p2) ==
    LET new_mass == p1.mass + p2.mass
        weighted(a, b) == <<TDiv(p1.mass * a[1] + p2.mass * b[1], new_mass),
                            TDiv(p1.mass * a[2] + p2.mass * b[2], new_mass)>>
    IN  [name |-> p1.name \o p2.name,
         position |-> weighted(p1.position, p2.position),
         velocity |-> weighted(p1.velocity, p2.velocity),
         mass |-> new_mass,
         visual_radius |-> ICbrt(p1.visual_radius * p1.visual_radius * p1.visual_radius
                                 + p2.visual_radius * p2.visual_radius * p2.visual_radius),
         fixed |-> FALSE]

\* the pairs <<i, j>> the loops of lines 172-173 merge, in loop order
CollidingPairs(ps) ==
    LET N == Len(ps)
        all == [n \in 1 .. N * N |-> <<((n - 1) \div N) + 1, ((n - 1) % N) + 1>>]
    IN  SelectSeq(all, LAMBDA q : q[1] < q[2] /\ Collides(ps[q[1]], ps[q[2]]))

\* handle_collisions (lines 167-191)
handle_collisions(ps) ==
    LET pairs == CollidingPairs(ps)
        merged == [n \in 1 .. Len(pairs) |-> MergedParticle(ps[pairs[n][1]], ps[pairs[n][2]])]
        to_remove == UNION { {pairs[n][1], pairs[n][2]} : n \in 1 .. Len(pairs) }
        kept == SelectSeq([i \in 1 .. Len(ps) |-> i], LAMBDA i : i \notin to_remove)
    IN  IF to_remove # {}
        THEN Eager([n \in 1 .. Len(kept) |-> ps[kept[n]]] \o merged)
        ELSE ps

\* create_initial_particles (lines 223-233)
InitSimulation ==
    /\ script = "simulation"
    /\ runs = <<>>
    /\ pc = "update"
    /\ step = 0
    \* the Sun first, then bodies at different places
    /\ \E seeds \in [1 .. S_BODIES -> S_Seeds] :
          /\ \A a, b \in 1 .. S_BODIES : a # b => seeds[a] # seeds[b]
          /\ particles = <<SUN>> \o seeds
    /\ forces = <<>> /\ new_temps = <<>> /\ new_entropy = <<>> /\ tree = <<>>
    /\ pending = {} /\ acc = {} /\ trace = <<>>
    /\ snap = particles
    /\ before = particles
    /\ positions = <<>>
    /\ IdleQr
    /\ IdleEvolution

\* line 315
S_UpdateUniverse ==
    /\ script = "simulation" /\ pc = "update"
    /\ LET r == update_universe(particles)
       IN  /\ particles' = r.particles
           /\ pc' = IF r.raised THEN "crashed" ELSE "collisions"
    /\ snap' = particles
    /\ before' = particles
    /\ UNCHANGED <<runs, script, step, forces, new_temps, new_entropy, tree, pending, acc,
                   trace, positions, qv, ev>>

\* line 317
S_HandleCollisions ==
    /\ script = "simulation" /\ pc = "collisions"
    /\ particles' = handle_collisions(particles)
    /\ before' = particles
    /\ pc' = "events"
    /\ UNCHANGED <<runs, script, step, forces, new_temps, new_entropy, tree, pending, acc,
                   trace, snap, positions, qv, ev>>

\* lines 353-407: an event that appends a body
S_CreateParticle ==
    /\ script = "simulation" /\ pc = "events"
    /\ Len(particles) < S_MAX
    /\ \E body \in S_NewBodies : particles' = Append(particles, body)
    /\ UNCHANGED <<runs, script, pc, step, forces, new_temps, new_entropy, tree, pending,
                   acc, trace, snap, before, positions, qv, ev>>

\* the loop test of line 306: the next frame
S_NextFrame ==
    /\ script = "simulation" /\ pc = "events"
    /\ step' = step + 1
    /\ pc' = IF step + 1 < S_FRAMES THEN "update" ELSE "done"
    /\ UNCHANGED <<runs, script, particles, forces, new_temps, new_entropy, tree, pending,
                   acc, trace, snap, before, positions, qv, ev>>

NextSimulation ==
    \/ S_UpdateUniverse
    \/ S_HandleCollisions
    \/ S_CreateParticle
    \/ S_NextFrame

-----------------------------------------------------------------------------
Init ==
    \/ InitUnified \/ InitEmergent \/ InitQr \/ InitEvolution \/ InitTwoRuns
    \/ InitPair \/ InitSimulation

Next ==
    \/ NextUnified \/ NextEmergent \/ NextQr \/ NextEvolution \/ NextTwoRuns
    \/ NextSimulation

Spec == Init /\ [][Next]_vars

\* one specification per script
SpecUnified == InitUnified /\ [][NextUnified]_vars
SpecEmergent == InitEmergent /\ [][NextEmergent]_vars
SpecQr == InitQr /\ [][NextQr]_vars
SpecEvolution == InitEvolution /\ [][NextEvolution]_vars
SpecTwoRuns == InitTwoRuns /\ [][NextTwoRuns]_vars
\* the unified script with a population of one or two neutral particles
SpecPair == InitPair /\ [][NextUnified]_vars
SpecSimulation == InitSimulation /\ [][NextSimulation]_vars

-----------------------------------------------------------------------------
(* Properties *)

IsPrefix(s, t) == Len(s) <= Len(t) /\ SubSeq(t, 1, Len(s)) = s

\* the positions of the unified loop body that lie after update_positions
AfterPositions == {"phases", "phases_loop", "quantum", "stats"}

\* C1: once update_positions has handled a particle, its speed is at most
\* 0.99 * C_LIGHT, whatever its force, mass and earlier velocity were
C1_SpeedCapped ==
    script = "unified" =>
        \A i \in DOMAIN particles :
            (pc \in AfterPositions \/ (pc = "positions_loop" /\ i \notin pending))
                => Norm2(particles[i].velocity) <= SpeedCap * SpeedCap

\* a particle whose accelerated velocity exceeded the cap has been integrated
C1_CapApplied ==
    /\ script = "unified" /\ pc = "phases"
    /\ \E i \in DOMAIN particles :
          /\ Norm2(Accelerate(before[i], forces[i])) > SpeedCap * SpeedCap
          /\ Norm2(particles[i].velocity) <= SpeedCap * SpeedCap
          /\ particles[i].velocity # <<0, 0>>

\* C2: every force computed in a step is the force that the positions and
\* velocities of the start of the step give
C2_ForcesFromStepStart ==
    /\ (script = "unified" /\ pc \notin {"forces", "done"})
           => forces = compute_forces_kdtree(snap)
    /\ (script = "emergent" /\ pc = "update")
           => \A i \in DOMAIN particles \ pending :
                  forces[i] = interact(snap, i, E_Neighbors(tree, snap, i))

\* C3: every temperature the diffusion writes is computed from the
\* temperatures all particles had before the phase started
C3_SimultaneousDiffusion ==
    /\ (script = "unified" /\ pc \in {"positions", "positions_loop"})
           => \A i \in DOMAIN particles :
                  particles[i].temperature
                      = HeatIteration(snap, i, snap[i].temperature, snap[i].entropy)[1]
    /\ (script = "emergent" /\ pc = "update")
           => \A i \in DOMAIN particles \ pending :
                  particles[i].temperature
                      = update_temperature(snap, i, E_Neighbors(tree, snap, i), E_DT)

\* the order of the phases as the specification gives it, and as the loop runs them
StatedOrder == <<"SpatialIndex", "ForceModel", "Integrator", "DiffusionModel",
                 "PhaseClassifier", "GroupSynchronizer">>
LoopOrder == <<"SpatialIndex", "ForceModel", "DiffusionModel", "Integrator",
               "PhaseClassifier", "GroupSynchronizer">>

Completed(phase) == \E k \in 1 .. Len(trace) : trace[k] = phase

\* what a phase that has not begun in this step has left untouched, and the
\* barrier: outside a parallel loop no iteration is outstanding
PhasesAreBarriers ==
    /\ pc \notin {"heat_loop", "positions_loop", "phases_loop"} => pending = {}
    /\ ~Completed("DiffusionModel")
           => \A i \in DOMAIN particles :
                  /\ particles[i].temperature = snap[i].temperature
                  /\ particles[i].entropy = snap[i].entropy
    /\ (~Completed("Integrator") /\ pc # "positions_loop")
           => \A i \in DOMAIN particles :
                  /\ particles[i].position = snap[i].position
                  /\ particles[i].velocity = snap[i].velocity
    /\ (~Completed("PhaseClassifier") /\ pc # "phases_loop")
           => \A i \in DOMAIN particles : particles[i].phase = snap[i].phase
    /\ ~Completed("GroupSynchronizer")
           => \A i \in DOMAIN particles :
                  particles[i].quantum_state = snap[i].quantum_state

\* C4 as stated: the phases of a step complete in the order SpatialIndex,
\* ForceModel, Integrator, DiffusionModel, PhaseClassifier, GroupSynchronizer,
\* each for all particles before the next begins
C4_StatedOrder ==
    (script = "unified" /\ pc # "done") => (IsPrefix(trace, StatedOrder) /\ PhasesAreBarriers)

\* C4 as amended: the phases of a step complete in the order SpatialIndex,
\* ForceModel, DiffusionModel, Integrator, PhaseClassifier, GroupSynchronizer,
\* each for all particles before the next begins
C4_LoopOrder ==
    (script = "unified" /\ pc # "done") => (IsPrefix(trace, LoopOrder) /\ PhasesAreBarriers)

\* a step in which all six phases have run and the diffusion and the
\* integrator have both changed the particles
C4_StepCompleted ==
    /\ script = "unified" /\ pc = "stats"
    /\ trace = LoopOrder
    /\ \E i \in DOMAIN particles : particles[i].temperature # snap[i].temperature
    /\ \E i \in DOMAIN particles : particles[i].position # snap[i].position

\* C5: in a parallel loop a worker writes only slots of its own particle, and
\* no slot written by one worker is read or written by another
C5_WorkersDisjoint ==
    /\ \A a \in acc :
          a[4] = "w" => IF a[2] = "relation_map"
                        THEN a[1] \in {a[3][1], a[3][2]}
                        ELSE a[3] = a[1]
    /\ \A a \in acc, b \in acc :
          (a[1] # b[1] /\ a[2] = b[2] /\ a[3] = b[3]) => (a[4] = "r" /\ b[4] = "r")

\* C6: whenever compute_field_influence is about to run, the relation map is
\* the one built for the current population
C6_MapIsCurrent ==
    (script = "evolution" /\ pc = "field")
        => relation_map = build_relation_map(positions, RELATION_RADIUS)

\* C7: after a pass all five per-particle arrays have the same length and
\* entry i of each belongs to the same particle
C7_ArraysAligned ==
    (script = "evolution" /\ pc \in {"rebuild", "field", "done"})
        => /\ Len(positions) = Len(resonance)
           /\ Len(polarity) = Len(resonance)
           /\ Len(truth) = Len(resonance)
           /\ Len(alignment) = Len(resonance)
           /\ Ids(positions) = Ids(resonance)
           /\ Ids(polarity) = Ids(resonance)
           /\ Ids(truth) = Ids(resonance)
           /\ Ids(alignment) = Ids(resonance)

IdSet(arr) == { arr[k].id : k \in 1 .. Len(arr) }

\* a pass has just appended an offspring and removed a particle
C7_PassChangedPopulation ==
    /\ script = "evolution" /\ pc = "rebuild"
    /\ IdSet(before.resonance) \ IdSet(resonance) # {}
    /\ IdSet(resonance) \ IdSet(before.resonance) # {}
    /\ Ids(alignment) = Ids(positions)

\* the particles of the population before the pass that pass the creation test
Creators == { k \in 1 .. Len(before.resonance) :
                before.resonance[k].v * before.truth[k].v > CREATION_THRESHOLD }

\* C8: between creation and removal the population is the whole population of
\* before the pass followed by one offspring for each of its particles above
\* the creation threshold; after the removal nothing of that enlarged
\* population below the conflict threshold is left, offspring included, and
\* everything else of it is
C8_CreationBeforeRemoval ==
    script = "evolution" =>
        /\ pc = "remove" =>
              LET n == Len(before.resonance)
              IN  /\ Len(resonance) = n + Cardinality(Creators)
                  /\ SubSeq(positions, 1, n) = before.positions
                  /\ SubSeq(resonance, 1, n) = before.resonance
                  /\ SubSeq(polarity, 1, n) = before.polarity
                  /\ SubSeq(truth, 1, n) = before.truth
                  /\ SubSeq(alignment, 1, n) = before.alignment
                  /\ \A m \in (n + 1) .. Len(resonance) :
                        \E k \in Creators :
                            /\ resonance[m].v = TDiv(before.resonance[k].v * 95, 100)
                            /\ truth[m].v = TDiv(before.truth[k].v * 98, 100)
                            /\ polarity[m].v = 0 - before.polarity[k].v
                            /\ alignment[m].v = before.alignment[k].v
        /\ pc = "rebuild" =>
              /\ \A k \in 1 .. Len(resonance) :
                    resonance[k].v * truth[k].v >= CONFLICT_THRESHOLD
              /\ \A k \in 1 .. Len(before.resonance) :
                    before.resonance[k].v * before.truth[k].v >= CONFLICT_THRESHOLD
                        => before.resonance[k].id \in IdSet(resonance)
              /\ Cardinality(IdSet(resonance) \ IdSet(before.resonance))
                    = Cardinality(Creators)
              /\ \A k \in 1 .. Len(resonance) - 1 : resonance[k].id < resonance[k + 1].id

\* offspring have been appended while a particle below the conflict threshold
\* is still in the arrays
C8_OffspringBesideConflict ==
    /\ script = "evolution" /\ pc = "remove"
    /\ Len(resonance) > Len(before.resonance)
    /\ \E k \in 1 .. Len(before.resonance) :
          resonance[k].v * truth[k].v < CONFLICT_THRESHOLD

\* the mean of the values the members of i's group had before the call
MeanBefore(i) ==
    LET group == { j \in DOMAIN before :
                      before[j].entanglement_id = before[i].entanglement_id }
    IN  TDiv(SumOver(group, [j \in group |-> before[j].quantum_state]),
             Cardinality(group))

\* C9: after update_quantum_states every particle holds the mean of the
\* quantum states its group's members had just before the call, and nothing
\* else of it has changed
C9_GroupMean ==
    (script = "unified" /\ pc = "stats")
        => \A i \in DOMAIN particles :
               particles[i] = [before[i] EXCEPT !.quantum_state = MeanBefore(i)]

\* two particles of one group held 100 and 300 and both hold 200
C9_Scenario ==
    /\ script = "unified" /\ pc = "stats"
    /\ \E i, j \in DOMAIN particles :
          /\ before[i].entanglement_id = before[j].entanglement_id
          /\ Cardinality(GroupMembers(before, before[i].entanglement_id)) = 2
          /\ before[i].quantum_state = 100 /\ before[j].quantum_state = 300
          /\ particles[i].quantum_state = 200 /\ particles[j].quantum_state = 200

\* C10: a second update_quantum_states directly after the first changes nothing
C10_Idempotent ==
    (script = "unified" /\ pc = "stats")
        => update_quantum_states(particles) = particles

\* the first call has changed a value
C10_FirstCallChanged ==
    /\ script = "unified" /\ pc = "stats"
    /\ \E i \in DOMAIN particles : particles[i].quantum_state # before[i].quantum_state

\* the emergent loop has just run its entanglement update on `before`
AfterEntangle == script = "emergent" /\ step >= 1 /\ pc \in {"tree", "done"}

\* C11: a particle without a group is left as it was by the group
\* synchronisation, and the mean a group's members receive is taken over the
\* members alone
C11_UngroupedUntouched ==
    /\ AfterEntangle =>
          \A i \in DOMAIN particles :
              IF before[i].entangled_partner = None
              THEN particles[i] = before[i]
              ELSE particles[i].temperature
                       = TDiv(before[i].temperature
                                + before[before[i].entangled_partner].temperature, 2)
    /\ (script = "unified" /\ pc = "stats") =>
          \A i \in DOMAIN particles :
              GroupMembers(before, before[i].entanglement_id) = {i}
                  => particles[i] = before[i]

\* an entanglement update has changed a pair while another particle has no partner
C11_PairBesideUngrouped ==
    /\ AfterEntangle
    /\ \E i \in DOMAIN particles : before[i].entangled_partner = None
    /\ \E j \in DOMAIN particles :
          /\ before[j].entangled_partner # None
          /\ particles[j].temperature # before[j].temperature

\* the entropy the stated rule gives particle i: every exchange Q_ij divided by
\* i's new temperature nt, all of it skipped when nt is not positive
StatedEntropy(ps, i, nt) ==
    LET others == DOMAIN ps \ {i}
        Q(j) == HEAT_TRANSFER_COEFF * (ps[j].temperature - ps[i].temperature)
    IN  IF nt > 0
        THEN ps[i].entropy
               + SumOver(others, [j \in others |->
                                     TDiv(TDiv(Q(j) * ENTROPY_SCALE, nt) * DELTA_T, NORM_FACTOR)])
        ELSE ps[i].entropy

\* C12: the entropy compute_heat_transfer returns for particle i is its old
\* entropy plus the sum over j of (Q_ij / new_temperature[i]) * dt / norm_factor
\* with i's final new temperature as the divisor of every term, and the old
\* entropy when that temperature is not positive
C12_EntropyByFinalTemperature ==
    (script = "unified" /\ pc = "assign")
        => \A i \in DOMAIN particles :
               new_entropy[i] = StatedEntropy(particles, i, new_temps[i])

\* the temperature particle i gets from exchanging heat with the particles js
TemperatureFrom(ps, i, js) ==
    ps[i].temperature
      + SumOver(js, [j \in js |->
                        TDiv(HEAT_TRANSFER_COEFF * (ps[j].temperature - ps[i].temperature)
                               * DELTA_T, NORM_FACTOR)])

\* C13: the temperature compute_heat_transfer returns for particle i is the
\* result of exchanging heat with i's spatial neighbors only; a particle
\* outside the neighbor set contributes nothing
C13_HeatFromNeighborsOnly ==
    (script = "unified" /\ pc = "assign")
        => \A i \in DOMAIN particles :
               new_temps[i] = TemperatureFrom(particles, i, BallNeighbors(particles, i))

\* C14: two independent runs of the script, with the seed, the parameters and
\* the step count of the code, enter the simulation loop with the same
\* particle population
C14_SameInitialPopulation ==
    (script = "unified_init" /\ \A r \in Runs : runs[r].line = "loop")
        => runs[1].particles_cosmo = runs[2].particles_cosmo

C16_EmptyStepCompletes ==
    (script = "unified" /\ DOMAIN particles = {}) => pc # "error"

\* velocities below, at and above the speed limit
ProbeVelocities ==
    { <<0, 0>>, <<SpeedCap, 0>>, <<0, GammaClamp - 1>>, <<GammaClamp, 0>>,
      <<0, -C_LIGHT>>, <<C_LIGHT, C_LIGHT>>, <<-3 * C_LIGHT, 0>> }

C18_NoSelfNeighbor ==
    /\ script = "unified" =>
          \A i \in DOMAIN particles : i \notin BallNeighbors(particles, i)
    /\ (script = "emergent" /\ pc = "update") =>
          \A i \in DOMAIN particles :
              LET nb == E_Neighbors(tree, particles, i)
              IN  \A n \in 1 .. Len(nb) : nb[n] # i
    /\ script = "qr" =>
          \A i \in DOMAIN neighbor_indices :
              \A n \in 1 .. Len(neighbor_indices[i]) : neighbor_indices[i][n] # i

\* the velocity of p after the force f has acted on it for one time step
Accelerated(p, f) ==
    <<p.velocity[1] + TDiv(f[1] * DELTA_T, p.mass),
      p.velocity[2] + TDiv(f[2] * DELTA_T, p.mass)>>

\* v is a rescaled to the speed cap: the same direction, and the length
\* 0.99 * C_LIGHT up to the rounding of the two components
RescaledToCap(a, v) ==
    /\ a[1] * v[1] >= 0 /\ a[2] * v[2] >= 0
    /\ Abs(a[1] * v[2] - a[2] * v[1]) <= Abs(a[1]) + Abs(a[2])
    /\ Norm2(v) <= SpeedCap * SpeedCap
    /\ Norm2(v) >= (SpeedCap - 3) * (SpeedCap - 3)

\* C19: the Integrator leaves every particle with the accelerated velocity if
\* that is within the cap and with that velocity rescaled to the cap if it
\* is above, and with the old position advanced by dt times the velocity it
\* leaves
C19_AccelerateCapMove ==
    (script = "unified" /\ pc \in {"positions_loop", "phases"})
        => \A i \in DOMAIN particles \ pending :
               LET a == Accelerated(before[i], forces[i])
                   v == particles[i].velocity
               IN  /\ IF Norm2(a) > SpeedCap * SpeedCap THEN RescaledToCap(a, v) ELSE v = a
                   /\ particles[i].position
                         = <<before[i].position[1] + v[1] * DELTA_T,
                             before[i].position[2] + v[2] * DELTA_T>>

\* the Integrator has rescaled one particle's velocity and left another's as
\* accelerated, and has moved both
C19_CappedAndUncapped ==
    /\ script = "unified" /\ pc = "phases"
    /\ \E i, j \in DOMAIN particles :
          /\ Norm2(Accelerated(before[i], forces[i])) > SpeedCap * SpeedCap
          /\ particles[i].position # before[i].position
          /\ Norm2(Accelerated(before[j], forces[j])) <= SpeedCap * SpeedCap
          /\ particles[j].velocity # before[j].velocity
          /\ particles[j].position # before[j].position

\* the phase with the thresholds lo and hi: below lo, from lo to below hi, from hi
Classified(t, lo, hi, solid, liquid, gas) ==
    IF t < lo THEN solid ELSE IF t < hi THEN liquid ELSE gas

\* update_phases has handled particle i of the unified script
PhaseWritten(i) ==
    \/ pc = "phases_loop" /\ i \notin pending
    \/ pc = "quantum"

\* what the claim says of update_phases: thresholds 500 and 2500, and nothing
\* written but the phase
UnifiedPhaseRule ==
    script = "unified" =>
        \A i \in DOMAIN particles :
            PhaseWritten(i)
                => particles[i]
                     = [before[i] EXCEPT
                           !.phase = Classified(before[i].temperature, 500, 2500, 0, 1, 2)]

\* C20 as stated: in both scripts a temperature below 500 is SOLID, from 500
\* to below 2500 LIQUID and from 2500 GAS, and the classifier writes the phase only
C20_StatedThresholds ==
    /\ UnifiedPhaseRule
    /\ script = "emergent" =>
          \A i \in DOMAIN particles :
              particles[i].phase
                  = Classified(particles[i].temperature, 50000, 250000, "solid", "liquid", "gas")

\* C20 as amended: update_phases of the unified script classifies with the
\* thresholds 500 and 2500 and writes the phase only; determine_phase of the
\* emergent script classifies with the thresholds 290 and 310
C20_ScriptThresholds ==
    /\ UnifiedPhaseRule
    /\ script = "emergent" =>
          \A i \in DOMAIN particles :
              particles[i].phase
                  = Classified(particles[i].temperature, 29000, 31000, "solid", "liquid", "gas")

\* the emergent script holds a particle at exactly 290 K, classified liquid,
\* beside a solid and a gas particle
C20_EmergentBoundary ==
    /\ script = "emergent" /\ step >= 1
    /\ \E i \in DOMAIN particles :
          particles[i].temperature = 29000 /\ particles[i].phase = "liquid"
    /\ \E i \in DOMAIN particles : particles[i].phase = "gas"

\* the unified script has classified a particle at exactly 500
C20_UnifiedBoundary ==
    /\ script = "unified" /\ pc = "quantum"
    /\ \E i \in DOMAIN particles : particles[i].temperature = 500 /\ particles[i].phase = 1

\* the state in which compute_forces_kdtree has just returned the forces of a
\* population of exactly two particles, both neutral and of equal mass
NeutralTwins ==
    /\ script = "unified" /\ pc = "heat"
    /\ DOMAIN particles = {1, 2}
    /\ particles[1].charge = 0 /\ particles[2].charge = 0
    /\ particles[1].mass = particles[2].mass

\* C21 as stated: for two neutral particles of equal mass the force on the
\* first and the force on the second have the same magnitude, for every pair
\* of positions and every pair of velocities
C21_SymmetricForEveryVelocity ==
    NeutralTwins => Norm2(forces[1]) = Norm2(forces[2])

\* C21: for two neutral particles of equal mass and equal speed the force on
\* the first and the force on the second have the same magnitude, for every
\* pair of positions
C21_SymmetricAtEqualSpeed ==
    (NeutralTwins /\ Norm2(particles[1].velocity) = Norm2(particles[2].velocity))
        => Norm2(forces[1]) = Norm2(forces[2])

\* two neutral particles of equal mass that move at the same speed in
\* different directions attract each other
C21_TwinsAttract ==
    /\ NeutralTwins
    /\ Norm2(particles[1].velocity) = Norm2(particles[2].velocity)
    /\ particles[1].velocity # particles[2].velocity
    /\ Norm2(particles[1].velocity) > 0
    /\ forces[1] # <<0, 0>>
    /\ forces[1] # forces[2]

\* the first step has passed update_positions and began with exactly two
\* neutral particles of equal mass, at rest, at distance 10
TwoBodyScenario ==
    /\ script = "unified" /\ step = 0 /\ pc \in AfterPositions
    /\ DOMAIN snap = {1, 2}
    /\ snap[1].charge = 0 /\ snap[2].charge = 0
    /\ snap[1].mass = snap[2].mass
    /\ snap[1].velocity = <<0, 0>> /\ snap[2].velocity = <<0, 0>>
    /\ SqDist(snap[1].position, snap[2].position) = 10 * 10

\* the displacement of particle i since the start of the step
Displacement(i) ==
    <<particles[i].position[1] - snap[i].position[1],
      particles[i].position[2] - snap[i].position[2]>>

\* C22: two neutral particles of equal mass, at rest at distance 10, are
\* displaced by one step toward each other, by displacements that are equal
\* in magnitude and opposite in direction; their velocities cancel
C22_EqualAndOpposite ==
    TwoBodyScenario =>
        LET d1 == Displacement(1)
            d2 == Displacement(2)
            r_vec == <<snap[2].position[1] - snap[1].position[1],
                       snap[2].position[2] - snap[1].position[2]>>
        IN  /\ d1[1] = -d2[1] /\ d1[2] = -d2[2]
            /\ d1[1] * r_vec[1] + d1[2] * r_vec[2] > 0
            /\ particles[1].velocity[1] + particles[2].velocity[1] = 0
            /\ particles[1].velocity[2] + particles[2].velocity[2] = 0

\* the two particles of the scenario lie on a diagonal and have both moved
C22_DiagonalPairMoved ==
    /\ TwoBodyScenario
    /\ pc = "phases"
    /\ snap[1].position[1] # snap[2].position[1]
    /\ snap[1].position[2] # snap[2].position[2]
    /\ Displacement(1)[1] # 0 /\ Displacement(1)[2] # 0

\* C23: a particle with no neighbors gets the zero vector as net force, and a
\* population of one particle at rest keeps its position and its velocity in
\* every step
C23_LoneParticleAtRest ==
    /\ [](script = "unified" /\ pc = "heat"
            => \A i \in DOMAIN particles :
                   BallNeighbors(particles, i) = {} => forces[i] = <<0, 0>>)
    /\ [][(script = "unified" /\ DOMAIN particles = {1}
             /\ particles[1].velocity = <<0, 0>>)
            => /\ particles'[1].position = particles[1].position
               /\ particles'[1].velocity = particles[1].velocity]_vars

\* a population of one particle at rest has run every step of the loop
C23_LoneParticleRan ==
    /\ script = "unified" /\ pc = "done"
    /\ DOMAIN particles = {1}
    /\ particles[1].velocity = <<0, 0>>
    /\ forces = <<<<0, 0>>>>

\* the particles above the creation threshold before the pass, in array order
CreatorSeq == SelectSeq([k \in 1 .. Len(before.resonance) |-> k], LAMBDA k : k \in Creators)

\* C24: after the creation the arrays are those of before the pass, unchanged,
\* followed by one offspring for each particle above the creation threshold, in
\* the order of the parents; the offspring has the parent's polarity negated,
\* its resonance times 0.95, its truth times 0.98, its alignment, and its
\* position displaced by the noise drawn
C24_OneOffspringEach ==
    (script = "evolution" /\ pc = "remove") =>
        LET n == Len(before.resonance)
        IN  /\ Len(resonance) = n + Len(CreatorSeq)
            /\ Len(positions) = Len(resonance) /\ Len(polarity) = Len(resonance)
            /\ Len(truth) = Len(resonance) /\ Len(alignment) = Len(resonance)
            /\ SubSeq(positions, 1, n) = before.positions
            /\ SubSeq(resonance, 1, n) = before.resonance
            /\ SubSeq(polarity, 1, n) = before.polarity
            /\ SubSeq(truth, 1, n) = before.truth
            /\ SubSeq(alignment, 1, n) = before.alignment
            /\ \A m \in 1 .. Len(CreatorSeq) :
                  LET k == CreatorSeq[m]
                  IN  /\ resonance[n + m].v = TDiv(before.resonance[k].v * 95, 100)
                      /\ truth[n + m].v = TDiv(before.truth[k].v * 98, 100)
                      /\ polarity[n + m].v = 0 - before.polarity[k].v
                      /\ polarity[n + m].v # before.polarity[k].v
                      /\ alignment[n + m].v = before.alignment[k].v
                      /\ \E e \in EV_Noise :
                            \A d \in 1 .. 3 :
                                positions[n + m].v[d] = before.positions[k].v[d] + e[d]
                      /\ resonance[n + m].id \notin IdSet(before.resonance)

\* two particles were above the creation threshold and both have spawned
C24_TwoParentsSpawned ==
    /\ script = "evolution" /\ pc = "remove"
    /\ Len(CreatorSeq) >= 2
    /\ Len(resonance) = Len(before.resonance) + 2

\* the total of the masses of a particle list
TotalMass(ps) == SeqSum([i \in 1 .. Len(ps) |-> ps[i].mass])

\* C25: every index the k-nearest query of update_universe hands on for a
\* movable particle, the particle's own apart, is the index of a particle of
\* the list, whatever the size of the population; and the neighbor lists of
\* update_neighbor_indices hold indices of particles only
C25_IndicesInRange ==
    /\ (script = "simulation" /\ pc = "update") =>
           \A i \in DOMAIN particles :
               ~particles[i].fixed =>
                   LET idx == S_NeighborIdx([k \in DOMAIN particles |-> particles[k].position], i)
                   IN  \A n \in 1 .. Len(idx) : idx[n] \in DOMAIN particles
    /\ script = "simulation" => pc # "crashed"
    /\ script = "qr" =>
           \A i \in DOMAIN neighbor_indices :
               \A n \in DOMAIN neighbor_indices[i] :
                   neighbor_indices[i][n] \in DOMAIN positions \cup {-1}

\* C26: the fixed Sun keeps its position and its velocity, stays in the list
\* and is the only fixed particle, whatever update_universe, handle_collisions
\* and the creation events do
C26_FixedUntouched ==
    script = "simulation" =>
        /\ Cardinality({ i \in DOMAIN particles : particles[i].fixed }) = 1
        /\ \A i \in DOMAIN particles : particles[i].fixed => particles[i] = SUN
        /\ \A i \in DOMAIN particles :
               Len(particles[i].name) > 1 => ~particles[i].fixed

\* a pass of handle_collisions has merged two bodies while a third body lay
\* inside the Sun's radius, after update_universe had moved the bodies
C26_MergeBesideSun ==
    /\ script = "simulation" /\ pc = "events"
    /\ \E i \in DOMAIN particles : Len(particles[i].name) > 1
    /\ \E i \in DOMAIN particles : ~particles[i].fixed /\ TooClose(particles[i], SUN)
    /\ \E i \in DOMAIN snap : snap[i] \notin { particles[k] : k \in DOMAIN particles }

\* C27: a pass of handle_collisions leaves the total mass of the list as it was
C27_MassPreserved ==
    (script = "simulation" /\ pc = "events") => TotalMass(particles) = TotalMass(before)

\* the loop body has run to its end at least once and no call of it is under way
StepEnded ==
    \/ script = "emergent" /\ step > 0 /\ pc \in {"tree", "done"}
    \/ script = "unified" /\ (pc \in {"stats", "done"} \/ (pc = "forces" /\ step > 0))

\* C28: at the end of every step the phase of each particle is the phase its
\* current temperature classifies to
C28_PhaseFollowsTemperature ==
    StepEnded =>
        \A i \in DOMAIN particles :
            particles[i].phase = IF script = "emergent"
                                 THEN determine_phase(particles[i].temperature)
                                 ELSE PhaseOf(particles[i].temperature)

\* the entanglement update has given a particle a temperature of another
\* phase than the one update_phase had classified it to
C28_PhaseChangedByEntanglement ==
    /\ script = "emergent" /\ StepEnded
    /\ \E i \in DOMAIN particles :
          /\ before[i].temperature # particles[i].temperature
          /\ before[i].phase = determine_phase(before[i].temperature)
          /\ before[i].phase # particles[i].phase

\* C29: the temperatures compute_heat_transfer returns add up to the sum of
\* the temperatures the particles had when it was called
C29_TotalTemperatureConserved ==
    (script = "unified" /\ pc = "assign") =>
        SumOver(DOMAIN new_temps, new_temps)
            = SumOver(DOMAIN particles, [i \in DOMAIN particles |-> particles[i].temperature])

\* compute_heat_transfer has returned for three particles, has warmed one of
\* them and has cooled another
C29_HeatExchanged ==
    /\ script = "unified" /\ pc = "assign"
    /\ Cardinality(DOMAIN particles) >= 3
    /\ \E i, j \in DOMAIN particles :
          /\ new_temps[i] > particles[i].temperature
          /\ new_temps[j] < particles[j].temperature

\* compute_forces_kdtree is about to be called, or has just returned, in a
\* step that follows a call of update_positions
LaterForceEvaluation == script = "unified" /\ step > 0 /\ pc \in {"forces", "heat"}

\* C30: in every force evaluation that follows a call of update_positions the
\* speed of each particle is at most 0.99 * C_LIGHT, so that gamma is computed
\* from the speed itself and not from the 0.999 of the clamp
C30_ClampOnlyForInitialVelocities ==
    LaterForceEvaluation =>
        \A i \in DOMAIN particles :
            /\ Norm2(particles[i].velocity) <= SpeedCap * SpeedCap
            /\ Norm2(particles[i].velocity) < GammaClamp * GammaClamp
            /\ GammaRadicand(particles[i].velocity) = UnclampedRadicand(particles[i].velocity)

\* a force has been evaluated in the second step for a particle that moves
\* at the speed the cap left it and has a neighbor
C30_ForceOnCappedParticle ==
    /\ LaterForceEvaluation /\ pc = "heat"
    /\ \E i \in DOMAIN particles :
          /\ Norm2(particles[i].velocity) > (SpeedCap - 2) * (SpeedCap - 2)
          /\ forces[i] # <<0, 0>>

=============================================================================
